---- MODULE Spec2Model ----
(***************************************************************************)
(* BFV fixture reconciliation (importBfvMatches) of the OrderPortal        *)
(* calendar module, modelled over the calendar_events, field_mappings and  *)
(* bfv_import_history tables.                                              *)
(*                                                                         *)
(* Strings are TLA+ strings; toLowerCase and trim are computed character   *)
(* by character.  A NULL column (and an undefined TypeScript value) is the *)
(* value NULL; the code never stores an empty string in a nullable column  *)
(* (every write goes through "x || null").                                 *)
(***************************************************************************)
EXTENDS Integers, Sequences, FiniteSets, TLC

\* ---------------------------------------------------------------- bounds
\* what one behaviour may spend: one unit for every record of an importBfvMatches
\* call (one unit in all for a call with an empty batch and for a call that repeats
\* the batch of the call before it), one for every store request that is rejected,
\* one for every calendar event the admin enters by hand
MaxWork == 3

\* ---------------------------------------------------------------- values
NULL == "<null>"

Truthy(s) == s # NULL /\ s # ""

\* x || null
OrNull(s) == IF Truthy(s) THEN s ELSE NULL

CharAt(s, i) == SubSeq(s, i, i)

\* toLowerCase of one character (ASCII letters; every other character is kept)
LowerChar(c) ==
  CASE c = "A" -> "a" [] c = "B" -> "b" [] c = "C" -> "c" [] c = "D" -> "d"
    [] c = "E" -> "e" [] c = "F" -> "f" [] c = "G" -> "g" [] c = "H" -> "h"
    [] c = "I" -> "i" [] c = "J" -> "j" [] c = "K" -> "k" [] c = "L" -> "l"
    [] c = "M" -> "m" [] c = "N" -> "n" [] c = "O" -> "o" [] c = "P" -> "p"
    [] c = "Q" -> "q" [] c = "R" -> "r" [] c = "S" -> "s" [] c = "T" -> "t"
    [] c = "U" -> "u" [] c = "V" -> "v" [] c = "W" -> "w" [] c = "X" -> "x"
    [] c = "Y" -> "y" [] c = "Z" -> "z"
    [] OTHER -> c

RECURSIVE ToLowerCase(_)
ToLowerCase(s) ==
  IF Len(s) = 0 THEN ""
  ELSE LowerChar(CharAt(s, 1)) \o ToLowerCase(SubSeq(s, 2, Len(s)))

IsSpace(c) == c = " "

RECURSIVE TrimStart(_)
TrimStart(s) ==
  IF Len(s) > 0 /\ IsSpace(CharAt(s, 1)) THEN TrimStart(SubSeq(s, 2, Len(s))) ELSE s

RECURSIVE TrimEnd(_)
TrimEnd(s) ==
  IF Len(s) > 0 /\ IsSpace(CharAt(s, Len(s))) THEN TrimEnd(SubSeq(s, 1, Len(s) - 1)) ELSE s

Trim(s) == TrimEnd(TrimStart(s))

\* ---------------------------------------------------------------- key generator
\* mutant: the names are trimmed but keep their case
generateMatchKey_NoLowerCase(teamHome, teamAway, date, competition) ==
  LET key == Trim(teamHome) \o "|" \o Trim(teamAway) \o "|" \o date
  IN IF Truthy(competition) THEN key \o "|" \o Trim(competition) ELSE key

generateMatchKey(teamHome, teamAway, date, competition) ==
  LET normalizedHome == Trim(ToLowerCase(teamHome))
      normalizedAway == Trim(ToLowerCase(teamAway))
      key == normalizedHome \o "|" \o normalizedAway \o "|" \o date
  IN IF Truthy(competition)
     THEN key \o "|" \o Trim(ToLowerCase(competition))
     ELSE key

\* mutant: the upstream id is normalised like a name
generateExternalId_Normalised(match) ==
  IF Truthy(match.externalId) /\ Len(match.externalId) > 0
  THEN Trim(ToLowerCase(match.externalId))
  ELSE generateMatchKey(match.teamHome, match.teamAway, match.date, match.competition)

generateExternalId(match) ==
  IF Truthy(match.externalId) /\ Len(match.externalId) > 0
  THEN match.externalId
  ELSE generateMatchKey(match.teamHome, match.teamAway, match.date, match.competition)

\* ---------------------------------------------------------------- inputs
ClubHome == [teamHome |-> "SV A", teamAway |-> "Club"]
ClubAway == [teamHome |-> "Club", teamAway |-> "SV A"]

\* a ParsedBfvMatch; location "" stands for an absent location
ParsedBfvMatch(externalId, pairing, date, startTime, isHomeGame, competition, location, rawData) ==
  [externalId |-> externalId, date |-> date, startTime |-> startTime, endTime |-> "17:00",
   teamHome |-> pairing.teamHome, teamAway |-> pairing.teamAway, team |-> "herren",
   isHomeGame |-> isHomeGame, opponent |-> "SV A", competition |-> competition,
   location |-> location, rawData |-> rawData]

\* the fixture of the end-to-end example: no upstream id
mKey == ParsedBfvMatch("", ClubHome, "2026-03-01", "15:00", TRUE, "Kreisliga", "", "r1")
\* the same fixture once the upstream source assigns an id
mId == ParsedBfvMatch("bfv-1", ClubHome, "2026-03-01", "15:00", TRUE, "Kreisliga", "", "r2")
\* the same pairing on another day (cup game, replay)
mLater == ParsedBfvMatch("", ClubHome, "2026-03-08", "15:00", TRUE, "Kreisliga", "", "r3")
\* the fixture bfv-1 moved to the other ground
mSwap == ParsedBfvMatch("bfv-1", ClubAway, "2026-03-01", "15:00", FALSE, "Kreisliga", "", "r4")
\* the fixture bfv-1 with a new kick-off time and no competition given
mMoved == ParsedBfvMatch("bfv-1", ClubHome, "2026-03-01", "16:00", TRUE, "", "", "r6")

Matches == {mKey, mId, mLater, mSwap, mMoved}

\* the batches of n records
Batches(n) == [1..n -> Matches]

\* the (fileName, archiveMissing) arguments of a call; "" stands for an omitted fileName.
\* The two routes pass a name and leave archiveMissing at its default.
CallArgs ==
  {[fileName |-> "spielplan.pdf", archiveMissing |-> FALSE],
   [fileName |-> "", archiveMissing |-> TRUE]}

\* messages of the errors the store can raise
DbErrorMsg == "Connection terminated unexpectedly"
UniqueViolationMsg == "duplicate key value violates unique constraint \"unique_bfv_external\""

\* ---------------------------------------------------------------- state
VARIABLES
  events,                \* calendar_events rows
  fieldMappings,         \* field_mappings rows
  importHistory,         \* bfv_import_history rows, in insertion order
  nextId,                \* randomUUID(): the next unused id
  now,                   \* new Date(): advances with every write
  pc,                    \* position of the importBfvMatches call
  matches,               \* argument: the batch
  fileName,              \* argument
  archiveMissing,        \* argument
  idx,                   \* position of the for loop in matches
  summary,               \* local: BfvImportSummary
  processedExternalIds,  \* local: Set<string>
  returned,              \* what the last finished call gave its caller
  log,                   \* per record of the current call: what the loop body did
  eventsAtStart,         \* calendar_events when the current call started
  historyAtStart,        \* number of bfv_import_history rows when the current call started
  touched,               \* the admin changed calendar_events since the last call ended
  preArchive,            \* summary when the record loop ended
  prev,                  \* the call before the current one
  runs,                  \* calls started
  work,                  \* units of MaxWork spent
  faults,                \* where the store rejected a request during the current call
  racers,                \* the locals of two importBfvMatches calls that overlap
  probe,                 \* a function of the module called on its own: arguments, result
  session,               \* req.session of each browser, as the session store keeps it
  adminPassword,         \* admin_settings row admin_password: its value, NULL without row
  loggedIn,              \* history: sessions with a login answered 200 and no logout since
  response               \* the answer to the latest request

vars == <<events, fieldMappings, importHistory, nextId, now, pc, matches, fileName,
          archiveMissing, idx, summary, processedExternalIds, returned, log,
          eventsAtStart, historyAtStart, touched, preArchive, prev, runs, work, faults,
          racers, probe, session, adminPassword, loggedIn, response>>

\* the sessions and the admin password
webVars == <<session, adminPassword, loggedIn, response>>

\* the browsers that hold a session cookie
Sessions == {1, 2}

\* a session without a login
NoSession == [isAdmin |-> FALSE]

EmptySummary ==
  [createdCount |-> 0, updatedCount |-> 0, unchangedCount |-> 0,
   archivedCount |-> 0, errorCount |-> 0, errors |-> <<>>]

NoCall == [matches |-> <<>>, archiveMissing |-> FALSE, returned |-> "none",
           summary |-> EmptySummary, untouched |-> FALSE]

\* the two overlapping calls
Racers == {1, 2}

\* a call that has not been made: no batch, no locals
IdleRacer ==
  [pc |-> "idle", matches |-> <<>>, fileName |-> "", idx |-> 1, summary |-> EmptySummary,
   processedExternalIds |-> {}, existingEvent |-> {}, via |-> "none",
   defaultField |-> NULL, log |-> <<>>]

\* initializeDefaultFieldMappings, for the teams of the model
DefaultFieldMappings ==
  {[team |-> "herren", eventType |-> "spiel", defaultField |-> "a-platz"],
   [team |-> "herren", eventType |-> "training", defaultField |-> "a-platz"]}

\* the tables after start-up: initializeDefaultFieldMappings has filled field_mappings,
\* or it was rejected (the rejection is only logged) and the table is empty
Init ==
  /\ events = {}
  /\ fieldMappings \in {DefaultFieldMappings, {}}
  /\ importHistory = <<>>
  /\ nextId = 1
  /\ now = 1
  /\ pc = "idle"
  /\ matches = <<>>
  /\ fileName = ""
  /\ archiveMissing = FALSE
  /\ idx = 1
  /\ summary = EmptySummary
  /\ processedExternalIds = {}
  /\ returned = "none"
  /\ log = <<>>
  /\ eventsAtStart = {}
  /\ historyAtStart = 0
  /\ touched = FALSE
  /\ preArchive = EmptySummary
  /\ prev = NoCall
  /\ runs = 0
  /\ work = 0
  /\ faults = {}
  /\ racers = [p \in Racers |-> IdleRacer]
  /\ probe = [op |-> "none"]
  /\ session = [s \in Sessions |-> NoSession]
  /\ adminPassword = NULL
  /\ loggedIn = {}
  /\ response = [route |-> "none", sid |-> 0, status |-> 0, storage |-> 0,
                 password |-> NULL]

\* ---------------------------------------------------------------- store queries
BoolCol(b) == IF b THEN "true" ELSE "false"

\* mutant: the lookup by id takes a row of any source
PrimaryRows_AnySource(bfvMatchId) ==
  {r \in events : r.externalId = bfvMatchId}

\* mutant: the lookup by id filters on the wrong source
PrimaryRows_WrongSource(bfvMatchId) ==
  {r \in events : r.source = "MANUAL" /\ r.externalId = bfvMatchId}

\* where source = 'BFV' and external_id = bfvMatchId
PrimaryRows(bfvMatchId) ==
  {r \in events : r.source = "BFV" /\ r.externalId = bfvMatchId}

\* mutant: the fallback lookup compares home with away
FallbackRows_Swapped(match) ==
  {r \in events : /\ r.source = "BFV"
                  /\ r.teamHome = match.teamAway
                  /\ r.teamAway = match.teamHome
                  /\ r.status = "ACTIVE"}

\* where source = 'BFV' and team_home = .. and team_away = .. and status = 'ACTIVE'
FallbackRows(match) ==
  {r \in events : /\ r.source = "BFV"
                  /\ r.teamHome = match.teamHome
                  /\ r.teamAway = match.teamAway
                  /\ r.status = "ACTIVE"}

dbEventToCalendarEvent(dbEvent) ==
  [id |-> dbEvent.id, title |-> dbEvent.title, type |-> dbEvent.type, team |-> dbEvent.team,
   field |-> dbEvent.field, date |-> dbEvent.date, startTime |-> dbEvent.startTime,
   endTime |-> dbEvent.endTime, isHomeGame |-> dbEvent.isHomeGame,
   opponent |-> dbEvent.opponent, location |-> dbEvent.location,
   competition |-> dbEvent.competition, description |-> dbEvent.description,
   bfvImported |-> (dbEvent.source = "BFV"), bfvMatchId |-> dbEvent.externalId,
   updatedAt |-> dbEvent.updatedAt]

\* the CalendarEvent built in place from the fallback row
fallbackToCalendarEvent(fallbackEvent) ==
  [id |-> fallbackEvent.id, title |-> fallbackEvent.title, type |-> fallbackEvent.type,
   team |-> fallbackEvent.team, field |-> fallbackEvent.field, date |-> fallbackEvent.date,
   startTime |-> fallbackEvent.startTime, endTime |-> fallbackEvent.endTime,
   isHomeGame |-> fallbackEvent.isHomeGame, opponent |-> fallbackEvent.opponent,
   location |-> fallbackEvent.location, competition |-> fallbackEvent.competition,
   description |-> fallbackEvent.description, bfvImported |-> TRUE,
   bfvMatchId |-> fallbackEvent.externalId, updatedAt |-> fallbackEvent.updatedAt]

\* DbStorage.getDefaultField: the first mapping row of (team, eventType), if any
getDefaultField(team, eventType) ==
  LET rows == {m \in fieldMappings : m.team = team /\ m.eventType = eventType}
  IN IF rows = {} THEN {NULL} ELSE {m.defaultField : m \in rows}

\* mutant: the mapping is looked up for away games too
getDefaultFieldForTeam_IgnoresSide(team, isHomeGame) == getDefaultField(team, "spiel")

\* the values getDefaultFieldForTeam can resolve to (NULL: undefined)
getDefaultFieldForTeam(team, isHomeGame) ==
  IF ~isHomeGame THEN {NULL} ELSE getDefaultField(team, "spiel")

\* DbStorage.getBfvEventIds
getBfvEventIds ==
  {r.externalId : r \in {e \in events : e.source = "BFV" /\ e.status = "ACTIVE"
                                         /\ e.externalId # NULL}}

\* ---------------------------------------------------------------- change detector
Shown(v) == IF Truthy(v) THEN v ELSE "keiner"

\* mutant: the competition is compared even when the incoming one is blank
matchNeedsUpdate_BlankCompetition(existing, match, newField) ==
  LET c1 == IF existing.date # match.date
            THEN <<"Datum: " \o existing.date \o " -> " \o match.date>> ELSE <<>>
      c2 == IF existing.startTime # match.startTime
            THEN <<"Startzeit: " \o existing.startTime \o " -> " \o match.startTime>> ELSE <<>>
      c3 == IF existing.endTime # match.endTime
            THEN <<"Endzeit: " \o existing.endTime \o " -> " \o match.endTime>> ELSE <<>>
      c4 == IF Truthy(newField) /\ existing.field # newField
            THEN <<"Platz: " \o Shown(existing.field) \o " -> " \o newField>> ELSE <<>>
      c5 == IF Truthy(match.location) /\ existing.location # match.location
            THEN <<"Ort: " \o Shown(existing.location) \o " -> " \o match.location>> ELSE <<>>
      c6 == IF OrNull(existing.competition) # OrNull(match.competition)
            THEN <<"Wettbewerb: " \o Shown(existing.competition) \o " -> " \o match.competition>>
            ELSE <<>>
      changes == c1 \o c2 \o c3 \o c4 \o c5 \o c6
  IN [needsUpdate |-> Len(changes) > 0, changes |-> changes]

matchNeedsUpdate(existing, match, newField) ==
  LET c1 == IF existing.date # match.date
            THEN <<"Datum: " \o existing.date \o " -> " \o match.date>> ELSE <<>>
      c2 == IF existing.startTime # match.startTime
            THEN <<"Startzeit: " \o existing.startTime \o " -> " \o match.startTime>> ELSE <<>>
      c3 == IF existing.endTime # match.endTime
            THEN <<"Endzeit: " \o existing.endTime \o " -> " \o match.endTime>> ELSE <<>>
      c4 == IF Truthy(newField) /\ existing.field # newField
            THEN <<"Platz: " \o Shown(existing.field) \o " -> " \o newField>> ELSE <<>>
      c5 == IF Truthy(match.location) /\ existing.location # match.location
            THEN <<"Ort: " \o Shown(existing.location) \o " -> " \o match.location>> ELSE <<>>
      c6 == IF Truthy(match.competition) /\ existing.competition # match.competition
            THEN <<"Wettbewerb: " \o Shown(existing.competition) \o " -> " \o match.competition>>
            ELSE <<>>
      changes == c1 \o c2 \o c3 \o c4 \o c5 \o c6
  IN [needsUpdate |-> Len(changes) > 0, changes |-> changes]

\* ---------------------------------------------------------------- writes
Title(match) ==
  IF match.isHomeGame
  THEN match.teamHome \o " vs " \o match.teamAway
  ELSE match.teamHome \o " vs " \o match.teamAway

\* mutant: the update also writes type, isHomeGame and opponent, as the insert does
UpdateSet_WritesKind(row, match, externalId, defaultField) ==
  [row EXCEPT
     !.externalId = externalId,
     !.title = Title(match),
     !.date = match.date,
     !.startTime = match.startTime,
     !.endTime = match.endTime,
     !.field = IF match.isHomeGame
               THEN (IF defaultField = NULL THEN row.field ELSE defaultField)
               ELSE NULL,
     !.location = OrNull(match.location),
     !.competition = OrNull(match.competition),
     !.teamHome = match.teamHome,
     !.teamAway = match.teamAway,
     !.rawPayload = OrNull(match.rawData),
     !.type = "spiel",
     !.isHomeGame = BoolCol(match.isHomeGame),
     !.opponent = match.opponent,
     !.updatedAt = now]

\* mutant: the update also sets the status back to ACTIVE
UpdateSet_Reactivates(row, match, externalId, defaultField) ==
  [row EXCEPT
     !.externalId = externalId,
     !.title = Title(match),
     !.date = match.date,
     !.startTime = match.startTime,
     !.endTime = match.endTime,
     !.field = IF match.isHomeGame
               THEN (IF defaultField = NULL THEN row.field ELSE defaultField)
               ELSE NULL,
     !.location = OrNull(match.location),
     !.competition = OrNull(match.competition),
     !.teamHome = match.teamHome,
     !.teamAway = match.teamAway,
     !.rawPayload = OrNull(match.rawData),
     !.status = "ACTIVE",
     !.updatedAt = now]

\* the row after db.update(..).set({..}); a key whose value is undefined is not written
UpdateSet(row, match, externalId, defaultField) ==
  [row EXCEPT
     !.externalId = externalId,
     !.title = Title(match),
     !.date = match.date,
     !.startTime = match.startTime,
     !.endTime = match.endTime,
     !.field = IF match.isHomeGame
               THEN (IF defaultField = NULL THEN row.field ELSE defaultField)
               ELSE NULL,
     !.location = OrNull(match.location),
     !.competition = OrNull(match.competition),
     !.teamHome = match.teamHome,
     !.teamAway = match.teamAway,
     !.rawPayload = OrNull(match.rawData),
     !.updatedAt = now]

\* the row of db.insert(..).values({..})
InsertValues(id, match, externalId, defaultField) ==
  [id |-> id, source |-> "BFV", externalId |-> externalId, type |-> "spiel",
   title |-> Title(match), team |-> match.team, teamHome |-> match.teamHome,
   teamAway |-> match.teamAway,
   field |-> IF match.isHomeGame THEN defaultField ELSE NULL,
   date |-> match.date, startTime |-> match.startTime, endTime |-> match.endTime,
   isHomeGame |-> BoolCol(match.isHomeGame), opponent |-> match.opponent,
   location |-> OrNull(match.location), competition |-> OrNull(match.competition),
   description |-> NULL, rawPayload |-> OrNull(match.rawData),
   status |-> "ACTIVE", updatedAt |-> now]

\* unique_bfv_external: would row, written in place of the row with its id, clash
ViolatesUnique(row) ==
  /\ row.externalId # NULL
  /\ \E r \in events : /\ r.id # row.id
                       /\ r.source = row.source
                       /\ r.externalId = row.externalId

\* mutant: the catch block keeps the message and does not count the error
RecordError_NoCount(s, match, errorMsg) ==
  [s EXCEPT !.errors = Append(@, "Fehler bei " \o match.teamHome \o " vs "
                                 \o match.teamAway \o ": " \o errorMsg)]

\* mutant: the catch block counts the error and drops its message
RecordError_NoMessage(s, match, errorMsg) ==
  [s EXCEPT !.errorCount = @ + 1]

\* the catch block of the record loop
RecordError(s, match, errorMsg) ==
  [s EXCEPT !.errorCount = @ + 1,
            !.errors = Append(@, "Fehler bei " \o match.teamHome \o " vs "
                                 \o match.teamAway \o ": " \o errorMsg)]

\* ---------------------------------------------------------------- importBfvMatches
\* the call: arguments bound, summary and processedExternalIds initialised
StartImport ==
  /\ pc = "idle"
  /\ work < MaxWork
  /\ \E n \in 0..(MaxWork - work), args \in CallArgs :
     \E batch \in Batches(n) \cup (IF runs > 0 THEN {matches} ELSE {}) :
       LET repeated == runs > 0 /\ batch = matches
           charge == IF repeated \/ Len(batch) = 0 THEN 1 ELSE Len(batch)
       IN /\ work' = work + charge
          /\ prev' = [matches |-> matches, archiveMissing |-> archiveMissing,
                      returned |-> returned, summary |-> summary,
                      untouched |-> ~touched]
          /\ matches' = batch
          /\ fileName' = args.fileName
          /\ archiveMissing' = args.archiveMissing
  /\ pc' = "loop"
  /\ idx' = 1
  /\ summary' = EmptySummary
  /\ processedExternalIds' = {}
  /\ returned' = "none"
  /\ log' = <<>>
  /\ eventsAtStart' = events
  /\ historyAtStart' = Len(importHistory)
  /\ touched' = FALSE
  /\ preArchive' = EmptySummary
  /\ faults' = {}
  /\ runs' = runs + 1
  /\ UNCHANGED <<events, fieldMappings, importHistory, nextId, now, racers, probe, webVars>>

\* the catch block: the record is counted as an error, the store is as it was
Caught(match, errorMsg) ==
  /\ summary' = RecordError(summary, match, errorMsg)
  /\ log' = Append(log, [outcome |-> "error", id |-> 0, via |-> "none"])
  /\ UNCHANGED <<events, nextId, now>>

\* mutant: the existing-event branch writes the row even when nothing changed
UpdateOrKeep_AlwaysWrites(match, externalId, row, existingEvent, via, defaultField) ==
  LET det == matchNeedsUpdate(existingEvent, match, defaultField)
      target == {r \in events : r.id = existingEvent.id}
      written == {UpdateSet(r, match, externalId, defaultField) : r \in target}
  IN IF \E w \in written : ViolatesUnique(w)
     THEN Caught(match, UniqueViolationMsg)
     ELSE /\ events' = (events \ target) \cup written
          /\ now' = now + 1
          /\ summary' = IF det.needsUpdate
                         THEN [summary EXCEPT !.updatedCount = @ + 1]
                         ELSE [summary EXCEPT !.unchangedCount = @ + 1]
          /\ log' = Append(log, [outcome |-> IF det.needsUpdate THEN "updated" ELSE "unchanged",
                                  id |-> existingEvent.id, via |-> via])
          /\ UNCHANGED nextId

\* the existing-event branch
UpdateOrKeep(match, externalId, row, existingEvent, via, defaultField) ==
  LET det == matchNeedsUpdate(existingEvent, match, defaultField)
      target == {r \in events : r.id = existingEvent.id}
      written == {UpdateSet(r, match, externalId, defaultField) : r \in target}
  IN IF det.needsUpdate
     THEN IF \E w \in written : ViolatesUnique(w)
          THEN Caught(match, UniqueViolationMsg)
          ELSE /\ events' = (events \ target) \cup written
               /\ now' = now + 1
               /\ summary' = [summary EXCEPT !.updatedCount = @ + 1]
               /\ log' = Append(log, [outcome |-> "updated", id |-> existingEvent.id, via |-> via])
               /\ UNCHANGED nextId
     ELSE /\ summary' = [summary EXCEPT !.unchangedCount = @ + 1]
          /\ log' = Append(log, [outcome |-> "unchanged", id |-> existingEvent.id, via |-> via])
          /\ UNCHANGED <<events, nextId, now>>

\* the create branch
Create(match, externalId, defaultField) ==
  LET row == InsertValues(nextId, match, externalId, defaultField)
  IN IF ViolatesUnique(row)
     THEN Caught(match, UniqueViolationMsg)
     ELSE /\ events' = events \cup {row}
          /\ nextId' = nextId + 1
          /\ now' = now + 1
          /\ summary' = [summary EXCEPT !.createdCount = @ + 1]
          /\ log' = Append(log, [outcome |-> "created", id |-> nextId, via |-> "none"])

\* mutant: the loop body asks the fallback select first, the lookup by id second
ProcessRecord_FallbackFirst ==
  /\ pc = "loop"
  /\ idx <= Len(matches)
  /\ LET match == matches[idx]
         externalId == generateExternalId(match)
     IN /\ processedExternalIds' = processedExternalIds \cup {externalId}
        /\ \/ \* a store request of this iteration rejects
              /\ work < MaxWork
              /\ work' = work + 1
              /\ Caught(match, DbErrorMsg)
              /\ faults' = faults \cup {"record"}
           \/ /\ UNCHANGED <<faults, work>>
              /\ \E defaultField \in getDefaultFieldForTeam(match.team, match.isHomeGame) :
                   IF FallbackRows(match) # {}
                   THEN \E row \in FallbackRows(match) :
                          UpdateOrKeep(match, externalId, row, fallbackToCalendarEvent(row),
                                       "fallback", defaultField)
                   ELSE IF PrimaryRows(externalId) # {}
                   THEN \E row \in PrimaryRows(externalId) :
                          UpdateOrKeep(match, externalId, row, dbEventToCalendarEvent(row),
                                       "primary", defaultField)
                   ELSE Create(match, externalId, defaultField)
  /\ idx' = idx + 1
  /\ UNCHANGED <<fieldMappings, importHistory, pc, matches, fileName, archiveMissing,
                 returned, eventsAtStart, historyAtStart, touched, preArchive, prev, runs,
                 racers, probe, webVars>>

\* mutant: the externalId joins the seen set only once the lookups have answered
ProcessRecord_SeenAfterLookup ==
  /\ pc = "loop"
  /\ idx <= Len(matches)
  /\ LET match == matches[idx]
         externalId == generateExternalId(match)
     IN /\ \/ \* a store request of this iteration rejects
              /\ UNCHANGED processedExternalIds
              /\ work < MaxWork
              /\ work' = work + 1
              /\ Caught(match, DbErrorMsg)
              /\ faults' = faults \cup {"record"}
           \/ /\ processedExternalIds' = processedExternalIds \cup {externalId}
              /\ UNCHANGED <<faults, work>>
              /\ \E defaultField \in getDefaultFieldForTeam(match.team, match.isHomeGame) :
                   IF PrimaryRows(externalId) # {}
                   THEN \E row \in PrimaryRows(externalId) :
                          UpdateOrKeep(match, externalId, row, dbEventToCalendarEvent(row),
                                       "primary", defaultField)
                   ELSE IF FallbackRows(match) # {}
                   THEN \E row \in FallbackRows(match) :
                          UpdateOrKeep(match, externalId, row, fallbackToCalendarEvent(row),
                                       "fallback", defaultField)
                   ELSE Create(match, externalId, defaultField)
  /\ idx' = idx + 1
  /\ UNCHANGED <<fieldMappings, importHistory, pc, matches, fileName, archiveMissing,
                 returned, eventsAtStart, historyAtStart, touched, preArchive, prev, runs,
                 racers, probe, webVars>>

\* one iteration of the for loop: lookup, field resolution, write, catch
ProcessRecord ==
  /\ pc = "loop"
  /\ idx <= Len(matches)
  /\ LET match == matches[idx]
         externalId == generateExternalId(match)
     IN /\ processedExternalIds' = processedExternalIds \cup {externalId}
        /\ \/ \* a store request of this iteration rejects
              /\ work < MaxWork
              /\ work' = work + 1
              /\ Caught(match, DbErrorMsg)
              /\ faults' = faults \cup {"record"}
           \/ /\ UNCHANGED <<faults, work>>
              /\ \E defaultField \in getDefaultFieldForTeam(match.team, match.isHomeGame) :
                   IF PrimaryRows(externalId) # {}
                   THEN \E row \in PrimaryRows(externalId) :
                          UpdateOrKeep(match, externalId, row, dbEventToCalendarEvent(row),
                                       "primary", defaultField)
                   ELSE IF FallbackRows(match) # {}
                   THEN \E row \in FallbackRows(match) :
                          UpdateOrKeep(match, externalId, row, fallbackToCalendarEvent(row),
                                       "fallback", defaultField)
                   ELSE Create(match, externalId, defaultField)
  /\ idx' = idx + 1
  /\ UNCHANGED <<fieldMappings, importHistory, pc, matches, fileName, archiveMissing,
                 returned, eventsAtStart, historyAtStart, touched, preArchive, prev, runs,
                 racers, probe, webVars>>

\* mutant: the archival pass takes the ids that were seen
ArchiveTargets_Inverted ==
  {r \in events : /\ r.externalId \in getBfvEventIds
                  /\ r.externalId \in processedExternalIds
                  /\ r.source = "BFV"
                  /\ r.status = "ACTIVE"}

\* the rows the archival pass is after: active BFV rows whose id was not seen
ArchiveTargets ==
  {r \in events : /\ r.externalId \in getBfvEventIds
                  /\ r.externalId \notin processedExternalIds
                  /\ r.source = "BFV"
                  /\ r.status = "ACTIVE"}

\* mutant: the archival pass runs whatever archiveMissing says
ArchiveGuard_IgnoresFlag == processedExternalIds # {}

\* if (archiveMissing && processedExternalIds.size > 0)
ArchiveGuard == archiveMissing /\ processedExternalIds # {}

\* summary.archivedCount++ for each of the n rows archived
ArchivedSummary(s, n) == [s EXCEPT !.archivedCount = @ + n]

\* mutant: the catch block of the archival pass counts an error
ArchiveCaught_CountsError(s) == [s EXCEPT !.errorCount = @ + 1]

\* the catch block of the archival pass: it logs, the summary stays as it is
ArchiveCaught(s) == s

\* mutant: the archival pass marks the row cancelled
Archived_Cancelled(r) == [r EXCEPT !.status = "CANCELLED", !.updatedAt = now]

\* .set({ status: "ARCHIVED", updatedAt: new Date() })
Archived(r) == [r EXCEPT !.status = "ARCHIVED", !.updatedAt = now]

\* the archival pass after the loop; a rejected store request ends it where it stands
ArchiveMissing ==
  /\ pc = "loop"
  /\ idx > Len(matches)
  /\ preArchive' = summary
  /\ IF ArchiveGuard
     THEN \E done \in SUBSET ArchiveTargets, threw \in BOOLEAN :
            /\ (~threw => done = ArchiveTargets)
            /\ (threw => (done = {} \/ done # ArchiveTargets))
            /\ (threw => work < MaxWork)
            /\ work' = IF threw THEN work + 1 ELSE work
            /\ events' = (events \ done)
                           \cup {Archived(r) : r \in done}
            /\ summary' = IF threw
                           THEN ArchiveCaught(ArchivedSummary(summary, Cardinality(done)))
                           ELSE ArchivedSummary(summary, Cardinality(done))
            /\ now' = IF done = {} THEN now ELSE now + 1
            /\ faults' = IF threw THEN faults \cup {"archive"} ELSE faults
     ELSE UNCHANGED <<events, summary, now, faults, work>>
  /\ pc' = "history"
  /\ UNCHANGED <<fieldMappings, importHistory, nextId, matches, fileName, archiveMissing,
                 idx, processedExternalIds, returned, log, eventsAtStart, historyAtStart,
                 touched, prev, runs, racers, probe, webVars>>

\* errors.join("\n")
RECURSIVE JoinLines(_)
JoinLines(lines) ==
  IF Len(lines) = 0 THEN ""
  ELSE IF Len(lines) = 1 THEN lines[1]
  ELSE lines[1] \o "\n" \o JoinLines(Tail(lines))

\* mutant: an omitted fileName is stored as it is, not as null
HistoryRow_EmptyName(s, f) ==
  [createdCount |-> s.createdCount, updatedCount |-> s.updatedCount,
   unchangedCount |-> s.unchangedCount, archivedCount |-> s.archivedCount,
   errorCount |-> s.errorCount, fileName |-> f,
   notes |-> IF Len(s.errors) > 0 THEN JoinLines(s.errors) ELSE NULL]

\* the row handed to DbStorage.createImportHistory
HistoryRow(s, f) ==
  [createdCount |-> s.createdCount, updatedCount |-> s.updatedCount,
   unchangedCount |-> s.unchangedCount, archivedCount |-> s.archivedCount,
   errorCount |-> s.errorCount, fileName |-> OrNull(f),
   notes |-> IF Len(s.errors) > 0 THEN JoinLines(s.errors) ELSE NULL]

\* createImportHistory and return; if the insert rejects, so does the call
WriteHistory ==
  /\ pc = "history"
  /\ \/ /\ importHistory' = Append(importHistory, HistoryRow(summary, fileName))
        /\ returned' = "summary"
        /\ UNCHANGED <<faults, work>>
     \/ /\ work < MaxWork
        /\ work' = work + 1
        /\ returned' = "threw"
        /\ faults' = faults \cup {"history"}
        /\ UNCHANGED importHistory
  /\ pc' = "idle"
  /\ UNCHANGED <<events, fieldMappings, nextId, now, matches, fileName, archiveMissing,
                 idx, summary, processedExternalIds, log, eventsAtStart, historyAtStart,
                 touched, preArchive, prev, runs, racers, probe, webVars>>

\* ---------------------------------------------------------------- admin calendar
\* bodies of POST /api/calendar/events the admin page can send
InsertCalendarEvents ==
  {[title |-> "Training", type |-> "training", team |-> "herren", field |-> "b-platz",
    date |-> "2026-03-01", startTime |-> "18:00", endTime |-> "19:30",
    bfvImported |-> imported, bfvMatchId |-> matchId]
     : imported \in BOOLEAN, matchId \in {NULL, "bfv-1"}}

\* the row DbStorage.createCalendarEvent inserts
ManualRow(id, insertEvent) ==
  [id |-> id,
   source |-> IF insertEvent.bfvImported THEN "BFV" ELSE "MANUAL",
   externalId |-> OrNull(insertEvent.bfvMatchId),
   type |-> insertEvent.type, title |-> insertEvent.title, team |-> OrNull(insertEvent.team),
   teamHome |-> NULL, teamAway |-> NULL, field |-> OrNull(insertEvent.field),
   date |-> insertEvent.date, startTime |-> insertEvent.startTime,
   endTime |-> insertEvent.endTime, isHomeGame |-> NULL, opponent |-> NULL,
   location |-> NULL, competition |-> NULL, description |-> NULL, rawPayload |-> NULL,
   status |-> "ACTIVE", updatedAt |-> now]

\* POST /api/calendar/events: the insert, or a 500 when unique_bfv_external rejects it
CreateCalendarEvent ==
  /\ pc = "idle"
  /\ work < MaxWork
  /\ work' = work + 1
  /\ \E insertEvent \in InsertCalendarEvents :
       LET row == ManualRow(nextId, insertEvent)
       IN IF ViolatesUnique(row)
          THEN UNCHANGED <<events, nextId, now, touched>>
          ELSE /\ events' = events \cup {row}
               /\ nextId' = nextId + 1
               /\ now' = now + 1
               /\ touched' = TRUE
  /\ UNCHANGED <<fieldMappings, importHistory, pc, matches, fileName, archiveMissing, idx,
                 summary, processedExternalIds, returned, log, eventsAtStart, historyAtStart,
                 preArchive, prev, runs, faults, racers, probe, webVars>>

Next ==
  \/ CreateCalendarEvent
  \/ StartImport
  \/ ProcessRecord
  \/ ArchiveMissing
  \/ WriteHistory

Spec == Init /\ [][Next]_vars

\* ---------------------------------------------------------------- overlapping calls
\* Two route handlers call importBfvMatches while the other call is still running.  A
\* call gives way to the other at each await: the lookup by id, the fallback select,
\* the read of the default field, the update or insert, the history insert.  Both
\* routes leave archiveMissing at false, so the archival pass is skipped.

\* the variables the overlapping calls leave alone
seqVars == <<webVars, probe, fieldMappings, pc, matches, fileName, archiveMissing, idx, summary,
             processedExternalIds, returned, log, eventsAtStart, historyAtStart, touched,
             preArchive, prev, runs, work, faults>>

\* the fileName each route passes
RouteFileName(p) == IF p = 1 THEN "bfv-html-herren" ELSE "spielplan.pdf"

\* both requests arrive; the two batches hold MaxWork records at most
RaceStart ==
  /\ \A p \in Racers : racers[p].pc = "idle"
  /\ \E n1 \in 1..(MaxWork - 1) : \E n2 \in 1..(MaxWork - n1) :
     \E b1 \in Batches(n1), b2 \in Batches(n2) :
       racers' = [p \in Racers |->
                    [IdleRacer EXCEPT !.pc = "primary",
                                      !.matches = IF p = 1 THEN b1 ELSE b2,
                                      !.fileName = RouteFileName(p)]]
  /\ UNCHANGED <<events, importHistory, nextId, now>>
  /\ UNCHANGED seqVars

\* externalId computed and added to the seen set, then getCalendarEventByBfvId
RacePrimary(p) ==
  LET me == racers[p]
      match == me.matches[me.idx]
      externalId == generateExternalId(match)
      seen == me.processedExternalIds \cup {externalId}
  IN /\ me.pc = "primary"
     /\ IF PrimaryRows(externalId) # {}
        THEN \E row \in PrimaryRows(externalId) :
               racers' = [racers EXCEPT ![p] =
                            [me EXCEPT !.processedExternalIds = seen,
                                       !.existingEvent = {dbEventToCalendarEvent(row)},
                                       !.via = "primary", !.pc = "field"]]
        ELSE racers' = [racers EXCEPT ![p] =
                          [me EXCEPT !.processedExternalIds = seen,
                                     !.existingEvent = {}, !.via = "none",
                                     !.pc = "fallback"]]
     /\ UNCHANGED <<events, importHistory, nextId, now>>
     /\ UNCHANGED seqVars

\* the fallback select
RaceFallback(p) ==
  LET me == racers[p]
      match == me.matches[me.idx]
  IN /\ me.pc = "fallback"
     /\ IF FallbackRows(match) # {}
        THEN \E row \in FallbackRows(match) :
               racers' = [racers EXCEPT ![p] =
                            [me EXCEPT !.existingEvent = {fallbackToCalendarEvent(row)},
                                       !.via = "fallback", !.pc = "field"]]
        ELSE racers' = [racers EXCEPT ![p] = [me EXCEPT !.pc = "field"]]
     /\ UNCHANGED <<events, importHistory, nextId, now>>
     /\ UNCHANGED seqVars

\* getDefaultFieldForTeam
RaceField(p) ==
  LET me == racers[p]
      match == me.matches[me.idx]
  IN /\ me.pc = "field"
     /\ \E defaultField \in getDefaultFieldForTeam(match.team, match.isHomeGame) :
          racers' = [racers EXCEPT ![p] =
                       [me EXCEPT !.defaultField = defaultField, !.pc = "write"]]
     /\ UNCHANGED <<events, importHistory, nextId, now>>
     /\ UNCHANGED seqVars

\* the locals after the loop body ended with the given outcome
RaceNext(me, s, outcome, id, tried) ==
  [me EXCEPT !.summary = s,
             !.log = Append(@, [outcome |-> outcome, id |-> id, via |-> me.via,
                                tried |-> tried]),
             !.idx = @ + 1,
             !.existingEvent = {},
             !.pc = IF me.idx = Len(me.matches) THEN "history" ELSE "primary"]

\* the update or insert of the loop body, on what the lookups of this call returned
RaceWrite(p) ==
  LET me == racers[p]
      match == me.matches[me.idx]
      externalId == generateExternalId(match)
  IN /\ me.pc = "write"
     /\ IF me.existingEvent # {}
        THEN \E existingEvent \in me.existingEvent :
          LET det == matchNeedsUpdate(existingEvent, match, me.defaultField)
              target == {r \in events : r.id = existingEvent.id}
              written == {UpdateSet(r, match, externalId, me.defaultField) : r \in target}
          IN IF det.needsUpdate
             THEN IF \E w \in written : ViolatesUnique(w)
                  THEN /\ racers' = [racers EXCEPT ![p] =
                            RaceNext(me, RecordError(me.summary, match, UniqueViolationMsg),
                                     "error", 0, "update")]
                       /\ UNCHANGED <<events, nextId, now>>
                  ELSE /\ events' = (events \ target) \cup written
                       /\ now' = now + 1
                       /\ racers' = [racers EXCEPT ![p] =
                            RaceNext(me, [me.summary EXCEPT !.updatedCount = @ + 1],
                                     "updated", existingEvent.id, "update")]
                       /\ UNCHANGED nextId
             ELSE /\ racers' = [racers EXCEPT ![p] =
                       RaceNext(me, [me.summary EXCEPT !.unchangedCount = @ + 1],
                                "unchanged", existingEvent.id, "none")]
                  /\ UNCHANGED <<events, nextId, now>>
        ELSE LET row == InsertValues(nextId, match, externalId, me.defaultField)
             IN IF ViolatesUnique(row)
                THEN /\ racers' = [racers EXCEPT ![p] =
                          RaceNext(me, RecordError(me.summary, match, UniqueViolationMsg),
                                   "error", 0, "insert")]
                     /\ UNCHANGED <<events, nextId, now>>
                ELSE /\ events' = events \cup {row}
                     /\ nextId' = nextId + 1
                     /\ now' = now + 1
                     /\ racers' = [racers EXCEPT ![p] =
                          RaceNext(me, [me.summary EXCEPT !.createdCount = @ + 1],
                                   "created", nextId, "insert")]
     /\ UNCHANGED importHistory
     /\ UNCHANGED seqVars

\* the archival guard is false; createImportHistory and return
RaceHistory(p) ==
  LET me == racers[p]
  IN /\ me.pc = "history"
     /\ importHistory' = Append(importHistory, HistoryRow(me.summary, me.fileName))
     /\ racers' = [racers EXCEPT ![p] = [me EXCEPT !.pc = "returned"]]
     /\ UNCHANGED <<events, nextId, now>>
     /\ UNCHANGED seqVars

RacePrimaryStep == \E p \in Racers : RacePrimary(p)
RaceFallbackStep == \E p \in Racers : RaceFallback(p)
RaceFieldStep == \E p \in Racers : RaceField(p)
RaceWriteStep == \E p \in Racers : RaceWrite(p)
RaceHistoryStep == \E p \in Racers : RaceHistory(p)

NextRace ==
  \/ RaceStart
  \/ RacePrimaryStep
  \/ RaceFallbackStep
  \/ RaceFieldStep
  \/ RaceWriteStep
  \/ RaceHistoryStep

SpecRace == Init /\ [][NextRace]_vars

\* ---------------------------------------------------------------- change detector alone
\* matchNeedsUpdate applied to a stored event, an incoming record and a default field

\* records that differ from mKey in one attribute
mCup == [mKey EXCEPT !.competition = "Pokal"]
mPlace == [mKey EXCEPT !.location = "Sportplatz 2"]
mShort == [mKey EXCEPT !.endTime = "16:45"]

DetectMatches == Matches \cup {mCup, mPlace, mShort}

\* the values of newField: undefined or a field
DetectFields == {NULL, "a-platz", "b-platz"}

\* the stored events: a record as the create branch stores it, read back
DetectExisting ==
  {dbEventToCalendarEvent(InsertValues(1, m, generateExternalId(m), f)) :
     m \in DetectMatches, f \in DetectFields}

\* the arguments are chosen
DetectPick ==
  /\ \E existing \in DetectExisting, match \in DetectMatches, newField \in DetectFields :
       probe' = [op |-> "matchNeedsUpdate", done |-> FALSE, existing |-> existing,
                 match |-> match, newField |-> newField]
  /\ UNCHANGED <<events, importHistory, nextId, now, racers, webVars>>
  /\ UNCHANGED <<fieldMappings, pc, matches, fileName, archiveMissing, idx, summary,
                 processedExternalIds, returned, log, eventsAtStart, historyAtStart,
                 touched, preArchive, prev, runs, work, faults>>

\* the call returns
DetectApply ==
  /\ probe.op = "matchNeedsUpdate"
  /\ ~probe.done
  /\ probe' = [op |-> "matchNeedsUpdate", done |-> TRUE, existing |-> probe.existing,
               match |-> probe.match, newField |-> probe.newField,
               out |-> matchNeedsUpdate(probe.existing, probe.match, probe.newField)]
  /\ UNCHANGED <<events, importHistory, nextId, now, racers, webVars>>
  /\ UNCHANGED <<fieldMappings, pc, matches, fileName, archiveMissing, idx, summary,
                 processedExternalIds, returned, log, eventsAtStart, historyAtStart,
                 touched, preArchive, prev, runs, work, faults>>

NextDetect ==
  \/ DetectPick
  \/ DetectApply

SpecDetect == Init /\ [][NextDetect]_vars

\* ---------------------------------------------------------------- admin sessions
\* everything but the sessions and the admin password
importVars == <<events, importHistory, nextId, now, racers, probe, fieldMappings, pc,
                matches, fileName, archiveMissing, idx, summary, processedExternalIds,
                returned, log, eventsAtStart, historyAtStart, touched, preArchive, prev,
                runs, work, faults>>

\* the password field of a request body; NULL is a body without it
BodyPasswords == {"12345", "neu", "", NULL}

\* storage.getAdminPassword(): setting?.value || "12345"
getAdminPassword == IF Truthy(adminPassword) THEN adminPassword ELSE "12345"

\* mutant: the guard looks for an admin flag in any session
requireAdmin_AnySession(s) == \E t \in Sessions : session[t].isAdmin

\* requireAdmin: next() is called only with req.session.isAdmin
requireAdmin(s) == session[s].isAdmin

Answer(route, s, status, storage, password) ==
  [route |-> route, sid |-> s, status |-> status, storage |-> storage,
   password |-> password]

\* the routes below that are guarded by requireAdmin
GuardedRoutes == {"change-password", "field-mappings"}

\* the login history of a session, as the answers show it
LoggedInAfter(answer) ==
  IF answer.route = "login" /\ answer.status = 200 THEN loggedIn \cup {answer.sid}
  ELSE IF answer.route = "logout" /\ answer.status = 200 THEN loggedIn \ {answer.sid}
  ELSE loggedIn

\* POST /api/auth/login
Login(s, password) ==
  /\ \/ /\ password = getAdminPassword
        /\ session' = [session EXCEPT ![s].isAdmin = TRUE]
        /\ response' = Answer("login", s, 200, 1, password)
     \/ /\ password # getAdminPassword
        /\ response' = Answer("login", s, 401, 1, password)
        /\ UNCHANGED session
     \/ \* getAdminPassword() rejects
        /\ response' = Answer("login", s, 500, 1, password)
        /\ UNCHANGED session
  /\ loggedIn' = LoggedInAfter(response')
  /\ UNCHANGED <<adminPassword, importVars>>

\* POST /api/auth/logout
Logout(s) ==
  /\ \/ /\ session' = [session EXCEPT ![s] = NoSession]
        /\ response' = Answer("logout", s, 200, 0, NULL)
     \/ \* destroy calls back with an error
        /\ response' = Answer("logout", s, 500, 0, NULL)
        /\ UNCHANGED session
  /\ loggedIn' = LoggedInAfter(response')
  /\ UNCHANGED <<adminPassword, importVars>>

\* GET /api/auth/check
AuthCheck(s) ==
  /\ response' = Answer("check", s, 200, 0, BoolCol(session[s].isAdmin))
  /\ loggedIn' = LoggedInAfter(response')
  /\ UNCHANGED <<session, adminPassword, importVars>>

\* POST /api/auth/change-password
ChangePassword(s, currentPassword, newPassword) ==
  /\ IF ~requireAdmin(s)
     THEN /\ response' = Answer("change-password", s, 401, 0, NULL)
          /\ UNCHANGED adminPassword
     ELSE \/ /\ currentPassword # getAdminPassword
             /\ response' = Answer("change-password", s, 401, 1, currentPassword)
             /\ UNCHANGED adminPassword
          \/ /\ currentPassword = getAdminPassword
             /\ ~Truthy(newPassword)
             /\ response' = Answer("change-password", s, 400, 1, currentPassword)
             /\ UNCHANGED adminPassword
          \/ /\ currentPassword = getAdminPassword
             /\ Truthy(newPassword)
             /\ adminPassword' = newPassword
             /\ response' = Answer("change-password", s, 200, 2, currentPassword)
          \/ \* a storage call rejects
             /\ response' = Answer("change-password", s, 500, 1, currentPassword)
             /\ UNCHANGED adminPassword
  /\ loggedIn' = LoggedInAfter(response')
  /\ UNCHANGED <<session, importVars>>

\* GET /api/calendar/field-mappings
GetFieldMappings(s) ==
  /\ IF ~requireAdmin(s)
     THEN response' = Answer("field-mappings", s, 401, 0, NULL)
     ELSE \/ response' = Answer("field-mappings", s, 200, 1, NULL)
          \/ response' = Answer("field-mappings", s, 500, 1, NULL)
  /\ loggedIn' = LoggedInAfter(response')
  /\ UNCHANGED <<session, adminPassword, importVars>>

LoginStep == \E s \in Sessions, password \in BodyPasswords : Login(s, password)
LogoutStep == \E s \in Sessions : Logout(s)
AuthCheckStep == \E s \in Sessions : AuthCheck(s)
ChangePasswordStep ==
  \E s \in Sessions, currentPassword \in BodyPasswords, newPassword \in BodyPasswords :
    ChangePassword(s, currentPassword, newPassword)
GetFieldMappingsStep == \E s \in Sessions : GetFieldMappings(s)

NextAuth ==
  \/ LoginStep
  \/ LogoutStep
  \/ AuthCheckStep
  \/ ChangePasswordStep
  \/ GetFieldMappingsStep

SpecAuth == Init /\ [][NextAuth]_vars

\* ---------------------------------------------------------------- field resolver alone
ProbeTeams == {"herren", "herren2", "damen"}
ProbeEventTypes == {"spiel", "training"}
ProbeFields == {"a-platz", "b-platz"}

\* everything but field_mappings and the probe
notFieldVars == <<events, importHistory, nextId, now, racers, webVars, pc, matches,
                  fileName, archiveMissing, idx, summary, processedExternalIds, returned,
                  log, eventsAtStart, historyAtStart, touched, preArchive, prev, runs,
                  work, faults>>

\* POST /api/calendar/field-mappings by an admin: an insert under unique_team_event_type
CreateFieldMapping ==
  /\ \E team \in ProbeTeams, eventType \in ProbeEventTypes, defaultField \in ProbeFields :
       IF \E m \in fieldMappings : m.team = team /\ m.eventType = eventType
       THEN UNCHANGED fieldMappings
       ELSE fieldMappings' = fieldMappings \cup
              {[team |-> team, eventType |-> eventType, defaultField |-> defaultField]}
  /\ UNCHANGED <<probe, notFieldVars>>

\* DELETE /api/calendar/field-mappings/:id by an admin
DeleteFieldMapping ==
  /\ \E m \in fieldMappings : fieldMappings' = fieldMappings \ {m}
  /\ UNCHANGED <<probe, notFieldVars>>

\* getDefaultFieldForTeam is called
FieldPick ==
  /\ \E team \in ProbeTeams, isHomeGame \in BOOLEAN :
       probe' = [op |-> "getDefaultFieldForTeam", done |-> FALSE, team |-> team,
                 isHomeGame |-> isHomeGame]
  /\ UNCHANGED <<fieldMappings, notFieldVars>>

\* the call returns; reads counts its queries on field_mappings
FieldApply ==
  /\ probe.op = "getDefaultFieldForTeam"
  /\ ~probe.done
  /\ \E out \in getDefaultFieldForTeam(probe.team, probe.isHomeGame) :
       probe' = [op |-> "getDefaultFieldForTeam", done |-> TRUE, team |-> probe.team,
                 isHomeGame |-> probe.isHomeGame,
                 reads |-> IF ~probe.isHomeGame THEN 0 ELSE 1,
                 out |-> out]
  /\ UNCHANGED <<fieldMappings, notFieldVars>>

NextField ==
  \/ CreateFieldMapping
  \/ DeleteFieldMapping
  \/ FieldPick
  \/ FieldApply

SpecField == Init /\ [][NextField]_vars

\* ---------------------------------------------------------------- key functions alone
\* spellings of one name: they differ in letter case and outer blanks only
HomeForms == {{"SV A", " sv a ", "Sv A"}, {"Club"}}
AwayForms == {{"Club", "CLUB "}}
CompetitionForms == {{"Kreisliga", " KREISLIGA"}, {"", " "}}
KeyDates == {"2026-03-01", "2026-03-08"}

\* the arguments of generateMatchKey; competition NULL is the omitted parameter
KeyArgs ==
  [teamHome : UNION HomeForms, teamAway : UNION AwayForms, date : KeyDates,
   competition : UNION CompetitionForms \cup {NULL}]

\* the externalId of a record: assigned upstream, empty, or missing
KeyExternalIds == {"bfv-1", " BFV-1 ", "", NULL}

\* everything but the probe
notProbeVars == <<events, fieldMappings, importHistory, nextId, now, racers, webVars, pc,
                  matches, fileName, archiveMissing, idx, summary, processedExternalIds,
                  returned, log, eventsAtStart, historyAtStart, touched, preArchive, prev,
                  runs, work, faults>>

\* generateMatchKey is called twice
KeyPick ==
  /\ probe.op = "none"
  /\ \E a \in KeyArgs, b \in KeyArgs :
       probe' = [op |-> "generateMatchKey", done |-> FALSE, a |-> a, b |-> b]
  /\ UNCHANGED notProbeVars

\* both calls return
KeyApply ==
  /\ probe.op = "generateMatchKey"
  /\ ~probe.done
  /\ probe' = [op |-> "generateMatchKey", done |-> TRUE, a |-> probe.a, b |-> probe.b,
               outA |-> generateMatchKey(probe.a.teamHome, probe.a.teamAway, probe.a.date,
                                         probe.a.competition),
               outB |-> generateMatchKey(probe.b.teamHome, probe.b.teamAway, probe.b.date,
                                         probe.b.competition)]
  /\ UNCHANGED notProbeVars

\* generateExternalId is called
IdPick ==
  /\ probe.op = "none"
  /\ \E externalId \in KeyExternalIds, a \in KeyArgs :
       a.competition # NULL /\
       probe' = [op |-> "generateExternalId", done |-> FALSE,
                 match |-> [externalId |-> externalId, teamHome |-> a.teamHome,
                            teamAway |-> a.teamAway, date |-> a.date,
                            competition |-> a.competition]]
  /\ UNCHANGED notProbeVars

\* the call returns
IdApply ==
  /\ probe.op = "generateExternalId"
  /\ ~probe.done
  /\ probe' = [op |-> "generateExternalId", done |-> TRUE, match |-> probe.match,
               out |-> generateExternalId(probe.match)]
  /\ UNCHANGED notProbeVars

NextKey ==
  \/ KeyPick
  \/ KeyApply
  \/ IdPick
  \/ IdApply

SpecKey == Init /\ [][NextKey]_vars

\* ---------------------------------------------------------------- team classifier
\* shared/schema.ts TEAMS
TEAMS ==
  {"herren", "herren2", "a-jugend", "b-jugend", "c-jugend", "d-jugend", "e-jugend",
   "f-jugend", "g-jugend", "damen", "alte-herren"}

\* String.prototype.includes
Includes(s, sub) ==
  \E i \in 1..(Len(s) - Len(sub) + 1) : SubSeq(s, i, i + Len(sub) - 1) = sub

\* String.prototype.endsWith
EndsWith(s, suffix) ==
  Len(s) >= Len(suffix) /\ SubSeq(s, Len(s) - Len(suffix) + 1, Len(s)) = suffix

\* mutant: the II/2 suffix is looked at before the other tokens
parseTeamFromName_SuffixFirst(teamName, sectionTeam) ==
  LET normalized == ToLowerCase(teamName)
      has(token) == Includes(normalized, token)
  IN IF Truthy(sectionTeam) THEN sectionTeam
     ELSE IF has("ii") \/ has(" 2") \/ EndsWith(normalized, "2") THEN "herren2"
     ELSE IF has("a-jugend") \/ has("a-junioren") THEN "a-jugend"
     ELSE IF has("b-jugend") \/ has("b-junioren") THEN "b-jugend"
     ELSE IF has("c-jugend") \/ has("c-junioren") THEN "c-jugend"
     ELSE IF has("d-jugend") \/ has("d-junioren") THEN "d-jugend"
     ELSE IF has("e-jugend") \/ has("e-junioren") THEN "e-jugend"
     ELSE IF has("f-jugend") \/ has("f-junioren") THEN "f-jugend"
     ELSE IF has("g-jugend") \/ has("g-junioren") THEN "g-jugend"
     ELSE IF has("damen") \/ has("frauen") THEN "damen"
     ELSE IF has("alte herren") \/ has("ah") THEN "alte-herren"
     ELSE "herren"

parseTeamFromName(teamName, sectionTeam) ==
  LET normalized == ToLowerCase(teamName)
      has(token) == Includes(normalized, token)
  IN IF Truthy(sectionTeam) THEN sectionTeam
     ELSE IF has("a-jugend") \/ has("a-junioren") THEN "a-jugend"
     ELSE IF has("b-jugend") \/ has("b-junioren") THEN "b-jugend"
     ELSE IF has("c-jugend") \/ has("c-junioren") THEN "c-jugend"
     ELSE IF has("d-jugend") \/ has("d-junioren") THEN "d-jugend"
     ELSE IF has("e-jugend") \/ has("e-junioren") THEN "e-jugend"
     ELSE IF has("f-jugend") \/ has("f-junioren") THEN "f-jugend"
     ELSE IF has("g-jugend") \/ has("g-junioren") THEN "g-jugend"
     ELSE IF has("damen") \/ has("frauen") THEN "damen"
     ELSE IF has("alte herren") \/ has("ah") THEN "alte-herren"
     ELSE IF has("ii") \/ has(" 2") \/ EndsWith(normalized, "2") THEN "herren2"
     ELSE "herren"

\* team names as they stand in fixture lists
TeamNames ==
  {"TSV Greding", "TSV Greding II", "TSV Greding 2", "Greding2", "TSV2 Greding",
   "A-Jugend II", "SG B-Junioren Damen", "G-JUGEND AH", "SG Damen AH 2", "Frauen II",
   "AH Greding II", "Alte Herren", "SV Bahnhof", "C-Jugend D-Junioren", ""}

\* the team is asked for
TeamPick ==
  /\ probe.op = "none"
  /\ \E teamName \in TeamNames, sectionTeam \in TEAMS \cup {NULL} :
       probe' = [op |-> "parseTeamFromName", done |-> FALSE, teamName |-> teamName,
                 sectionTeam |-> sectionTeam]
  /\ UNCHANGED notProbeVars

\* the call returns
TeamApply ==
  /\ probe.op = "parseTeamFromName"
  /\ ~probe.done
  /\ probe' = [op |-> "parseTeamFromName", done |-> TRUE, teamName |-> probe.teamName,
               sectionTeam |-> probe.sectionTeam,
               out |-> parseTeamFromName(probe.teamName, probe.sectionTeam)]
  /\ UNCHANGED notProbeVars

NextTeam ==
  \/ TeamPick
  \/ TeamApply

SpecTeam == Init /\ [][NextTeam]_vars

\* ---------------------------------------------------------------- PDF extractor
\* the longest text handed to parseBfvPdf, in headers and fixture lines
MaxItems == 3

\* \w of a regular expression
WordChars ==
  {"a", "b", "c", "d", "e", "f", "g", "h", "i", "j", "k", "l", "m", "n", "o", "p", "q",
   "r", "s", "t", "u", "v", "w", "x", "y", "z", "0", "1", "2", "3", "4", "5", "6", "7",
   "8", "9", "_"}

IsWordChar(c) == LowerChar(c) \in WordChars

\* the alternatives of sectionPattern in their order, lower-cased (the flag i)
SectionWords ==
  <<"herren", "damen",
    "a-jugend", "b-jugend", "c-jugend", "d-jugend", "e-jugend", "f-jugend", "g-jugend",
    "a-junioren", "b-junioren", "c-junioren", "d-junioren", "e-junioren", "f-junioren",
    "g-junioren", "alte herren">>

\* \b word \b at position i of the lower-cased text
WordAt(lower, i, w) ==
  LET e == i + Len(w) - 1
  IN /\ e <= Len(lower)
     /\ CharAt(lower, i) = CharAt(w, 1)
     /\ SubSeq(lower, i, e) = w
     /\ (i = 1 \/ ~IsWordChar(CharAt(lower, i - 1)))
     /\ (e = Len(lower) \/ ~IsWordChar(CharAt(lower, e + 1)))

\* the length of the match of sectionPattern at position i, 0 without match
SectionLenAt(lower, i) ==
  LET hits == {k \in 1..Len(SectionWords) : WordAt(lower, i, SectionWords[k])}
  IN IF hits = {} THEN 0
     ELSE Len(SectionWords[CHOOSE k \in hits : \A j \in hits : k <= j])

\* sectionPattern.exec in a loop from position i: the matched words in order, as they
\* stand in s; lower is s in lower case
RECURSIVE sectionPatternFrom(_, _, _)
sectionPatternFrom(s, lower, i) ==
  IF i > Len(s) THEN <<>>
  ELSE LET n == SectionLenAt(lower, i)
       IN IF n > 0
          THEN <<SubSeq(s, i, i + n - 1)>> \o sectionPatternFrom(s, lower, i + n)
          ELSE sectionPatternFrom(s, lower, i + 1)

\* a piece of the text: a header line, or what matchPattern captures of a fixture
\* line; raw is the part of the piece that holds letters
Header(raw) ==
  [kind |-> "header", raw |-> raw, type |-> "", leagueRaw |-> "", dateStr |-> "",
   timeStr |-> "", homeTeamRaw |-> "", awayTeamRaw |-> ""]

Fixture(leagueRaw, homeTeamRaw, awayTeamRaw) ==
  [kind |-> "fixture",
   raw |-> leagueRaw \o " " \o homeTeamRaw \o " - " \o awayTeamRaw,
   type |-> "ME", leagueRaw |-> leagueRaw, dateStr |-> "20.02.2026", timeStr |-> "19:00",
   homeTeamRaw |-> homeTeamRaw, awayTeamRaw |-> awayTeamRaw]

PdfHeaders == {Header("Herren"), Header("A-Junioren"), Header("DAMEN"), Header("Alte Herren")}

PdfPairings ==
  {<<"TSV Greding", "SV X">>, <<"SV X", "TSV Greding II">>, <<"TSV Greding 2", "SPIELFREI">>,
   <<"SV X", "SV Y">>, <<"TSV Greding", "TSV Greding II">>}

\* the fixture lines: every pairing in a league without section word, and one line
\* whose league name holds a section word
PdfFixtures ==
  {Fixture("Kreisliga", p[1], p[2]) : p \in PdfPairings}
    \cup {Fixture("B-Junioren Kreisklasse", "TSV Greding", "SV X")}

PdfItems == PdfHeaders \cup PdfFixtures

\* the texts: up to MaxItems pieces one after the other
PdfTexts == UNION {[1..n -> PdfItems] : n \in 1..MaxItems}

\* where piece i starts, and where the words inside a fixture line stand
StartPos(i) == 2 * i
InnerPos(i) == 2 * i + 1

\* the sections array: every match of sectionPattern with its position
RECURSIVE sectionsFrom(_, _)
sectionsFrom(text, i) ==
  IF i > Len(text) THEN <<>>
  ELSE LET words == sectionPatternFrom(text[i].raw, ToLowerCase(text[i].raw), 1)
           pos == IF text[i].kind = "header" THEN StartPos(i) ELSE InnerPos(i)
       IN [k \in 1..Len(words) |-> [name |-> words[k], pos |-> pos]]
            \o sectionsFrom(text, i + 1)

\* the loop over sections: the last one that starts before the fixture
currentSection(sections, matchPos) ==
  LET before == {k \in 1..Len(sections) : sections[k].pos < matchPos}
  IN IF before = {} THEN ""
     ELSE sections[CHOOSE k \in before : \A j \in before : j <= k].name

\* gredingTeamStr.includes("II") || gredingTeamStr.match(/Greding\s*2/i)
HasReserveSuffix(gredingTeamStr) ==
  \/ Includes(gredingTeamStr, "II")
  \/ Includes(ToLowerCase(gredingTeamStr), "greding2")
  \/ Includes(ToLowerCase(gredingTeamStr), "greding 2")
  \/ Includes(ToLowerCase(gredingTeamStr), "greding  2")

\* mutant: the suffix decides in every section
pdfTeam_SuffixAnywhere(section, gredingTeamStr) ==
  LET sectionLower == ToLowerCase(section)
      has(token) == Includes(sectionLower, token)
  IN IF HasReserveSuffix(gredingTeamStr) THEN "herren2"
     ELSE IF section = "" THEN "herren"
     ELSE IF has("e-juni") \/ has("e-jugend") THEN "e-jugend"
     ELSE IF has("f-juni") \/ has("f-jugend") THEN "f-jugend"
     ELSE IF has("d-juni") \/ has("d-jugend") THEN "d-jugend"
     ELSE IF has("c-juni") \/ has("c-jugend") THEN "c-jugend"
     ELSE IF has("b-juni") \/ has("b-jugend") THEN "b-jugend"
     ELSE IF has("a-juni") \/ has("a-jugend") THEN "a-jugend"
     ELSE IF has("g-juni") \/ has("g-jugend") THEN "g-jugend"
     ELSE IF has("damen") THEN "damen"
     ELSE IF has("alte") THEN "alte-herren"
     ELSE "herren"

\* the team of a fixture: from the section, from the suffix in the Herren section or
\* without section
pdfTeam(section, gredingTeamStr) ==
  LET sectionLower == ToLowerCase(section)
      has(token) == Includes(sectionLower, token)
  IN IF section # ""
     THEN IF has("e-juni") \/ has("e-jugend") THEN "e-jugend"
          ELSE IF has("f-juni") \/ has("f-jugend") THEN "f-jugend"
          ELSE IF has("d-juni") \/ has("d-jugend") THEN "d-jugend"
          ELSE IF has("c-juni") \/ has("c-jugend") THEN "c-jugend"
          ELSE IF has("b-juni") \/ has("b-jugend") THEN "b-jugend"
          ELSE IF has("a-juni") \/ has("a-jugend") THEN "a-jugend"
          ELSE IF has("g-juni") \/ has("g-jugend") THEN "g-jugend"
          ELSE IF has("damen") THEN "damen"
          ELSE IF has("alte") THEN "alte-herren"
          ELSE IF sectionLower = "herren" /\ HasReserveSuffix(gredingTeamStr) THEN "herren2"
          ELSE "herren"
     ELSE IF HasReserveSuffix(gredingTeamStr) THEN "herren2" ELSE "herren"

\* dateStr.split('.') put together as year-month-day
IsoDate(dateStr) ==
  SubSeq(dateStr, 7, 10) \o "-" \o SubSeq(dateStr, 4, 5) \o "-" \o SubSeq(dateStr, 1, 2)

\* the body of the loop for the fixture line at piece i: the match it pushes, if any
pdfMatchAt(text, sections, i) ==
  LET homeTeam == Trim(text[i].homeTeamRaw)
      awayTeam == Trim(text[i].awayTeamRaw)
      isHome == Includes(homeTeam, "TSV Greding")
      gredingTeamStr == IF isHome THEN homeTeam ELSE awayTeam
  IN IF text[i].kind # "fixture" THEN <<>>
     ELSE IF awayTeam = "SPIELFREI" \/ homeTeam = "SPIELFREI" THEN <<>>
     ELSE IF ~(Includes(homeTeam, "TSV Greding") \/ Includes(awayTeam, "TSV Greding"))
     THEN <<>>
     ELSE <<[type |-> text[i].type, league |-> Trim(text[i].leagueRaw),
             date |-> IsoDate(text[i].dateStr), time |-> text[i].timeStr,
             homeTeam |-> homeTeam, awayTeam |-> awayTeam, location |-> NULL,
             team |-> pdfTeam(currentSection(sections, StartPos(i)), gredingTeamStr),
             isHome |-> isHome]>>

RECURSIVE parseBfvPdfFrom(_, _, _)
parseBfvPdfFrom(text, sections, i) ==
  IF i > Len(text) THEN <<>>
  ELSE pdfMatchAt(text, sections, i) \o parseBfvPdfFrom(text, sections, i + 1)

parseBfvPdf(text) == parseBfvPdfFrom(text, sectionsFrom(text, 1), 1)

\* a text is handed to parseBfvPdf
PdfPick ==
  /\ probe.op = "none"
  /\ \E text \in PdfTexts : probe' = [op |-> "parseBfvPdf", done |-> FALSE, text |-> text]
  /\ UNCHANGED notProbeVars

\* the call returns
PdfApply ==
  /\ probe.op = "parseBfvPdf"
  /\ ~probe.done
  /\ probe' = [op |-> "parseBfvPdf", done |-> TRUE, text |-> probe.text,
               out |-> parseBfvPdf(probe.text)]
  /\ UNCHANGED notProbeVars

NextPdf ==
  \/ PdfPick
  \/ PdfApply

SpecPdf == Init /\ [][NextPdf]_vars

\* ---------------------------------------------------------------- helpers of the properties
\* the current call has returned its summary and the store is as the call left it
Returned == pc = "idle" /\ runs > 0 /\ returned = "summary" /\ ~touched

\* the current call is the second of two fault-free calls with the same arguments,
\* the store untouched in between
SecondOfTwo ==
  /\ Returned
  /\ runs >= 2
  /\ prev.returned = "summary"
  /\ prev.matches = matches
  /\ prev.archiveMissing = archiveMissing
  /\ prev.untouched
  /\ prev.summary.errorCount = 0
  /\ faults = {}

\* the records of the batch are pairwise different fixtures (pairing or day differ)
DistinctFixtures(batch) ==
  \A i, j \in 1..Len(batch) :
    i # j => \/ batch[i].teamHome # batch[j].teamHome
             \/ batch[i].teamAway # batch[j].teamAway
             \/ batch[i].date # batch[j].date

\* the stored row with the given id
RowsById(id) == {r \in events : r.id = id}

\* ---------------------------------------------------------------- C1
\* C1: importing the same batch a second time, nothing else having changed the store
\* in between, creates nothing and updates nothing, and every record that did not
\* error is counted as unchanged.  Stated for the most favourable case: no store
\* request fails, nothing is archived, no two records of the batch are the same fixture.
C1_Idempotence ==
  (SecondOfTwo /\ ~archiveMissing /\ DistinctFixtures(matches)) =>
    /\ summary.createdCount = 0
    /\ summary.updatedCount = 0
    /\ summary.unchangedCount = Len(matches) - summary.errorCount

\* ---------------------------------------------------------------- C2
\* a ProcessRecord step
RecordStep == pc = "loop" /\ idx <= Len(matches) /\ idx' = idx + 1

\* the BFV rows stored under the id the current record resolves to
StoredUnderId ==
  {r \in events : r.source = "BFV" /\ r.externalId = generateExternalId(matches[idx])}

Ids(rows) == {r.id : r \in rows}

\* no two rows share (source, externalId) when the externalId is not null
UniqueExternalIds ==
  \A r1, r2 \in events :
    (r1.externalId # NULL /\ r1.source = r2.source /\ r1.externalId = r2.externalId)
      => r1 = r2

\* C2: (source, externalId) is unique among the rows with an externalId, and a record
\* whose (source, externalId) is already stored resolves to that row or is counted as
\* an error; it never adds a row.
C2_Uniqueness ==
  /\ []UniqueExternalIds
  /\ [][(RecordStep /\ StoredUnderId # {}) =>
          /\ Ids(events') = Ids(events)
          /\ log'[idx].outcome \in {"updated", "unchanged", "error"}
          /\ (log'[idx].outcome # "error" => log'[idx].id \in Ids(StoredUnderId))]_vars

\* a record was resolved by its id while a hand-entered row carries the same id
C2_Witness ==
  /\ Returned
  /\ \E i \in 1..Len(log) : log[i].via = "primary"
  /\ \E r1, r2 \in events : r1.source # r2.source /\ r1.externalId = r2.externalId

\* ---------------------------------------------------------------- C3
\* an active BFV row for the fixture of the current record, stored under another id
SameFixtureOtherId ==
  {r \in events : /\ r.source = "BFV"
                  /\ r.status = "ACTIVE"
                  /\ r.teamHome = matches[idx].teamHome
                  /\ r.teamAway = matches[idx].teamAway
                  /\ r.date = matches[idx].date
                  /\ r.externalId # generateExternalId(matches[idx])}

C4_AwayFieldUnset ==
  LET i == Len(log)
  IN (/\ pc = "loop" /\ i >= 1
      /\ ~matches[i].isHomeGame
      /\ log[i].outcome # "error"
      /\ \A j \in 1..(i - 1) :
            /\ generateExternalId(matches[j]) # generateExternalId(matches[i])
            /\ log[j].id # log[i].id)
       => \A r \in RowsById(log[i].id) : r.field = NULL

\* ---------------------------------------------------------------- C5
\* the events the batch does not mention: active BFV rows at the start of the call
\* that no record names by id and no record resolved to
MissingFromBatch ==
  {e \in eventsAtStart :
     /\ e.source = "BFV"
     /\ e.status = "ACTIVE"
     /\ \A i \in 1..Len(matches) : generateExternalId(matches[i]) # e.externalId
     /\ \A i \in 1..Len(log) : log[i].id # e.id}

\* the rows this call archived
ArchivedByCall ==
  {r \in events : /\ r.status = "ARCHIVED"
                  /\ \E e \in eventsAtStart : e.id = r.id /\ e.status = "ACTIVE"}

C6_NoArchiveByDefault ==
  (runs > 0 /\ ~archiveMissing) =>
    /\ summary.archivedCount = 0
    /\ \A e \in eventsAtStart :
         /\ RowsById(e.id) # {}
         /\ \A r \in RowsById(e.id) : r.status = e.status

C6_Witness ==
  /\ Returned /\ ~archiveMissing /\ Len(matches) > 0
  /\ \E e \in MissingFromBatch :
       e.externalId # NULL /\ \A r \in RowsById(e.id) : r.status = "ACTIVE"

\* ---------------------------------------------------------------- C7
\* the positions in the batch of the records that ended in the catch block
RECURSIVE ErrorPositions(_, _)
ErrorPositions(entries, from) ==
  IF Len(entries) = 0 THEN <<>>
  ELSE (IF Head(entries).outcome = "error" THEN <<from>> ELSE <<>>)
         \o ErrorPositions(Tail(entries), from + 1)

\* message names the teams of match and carries a message of the store
NamesRecord(message, match) ==
  \E errorMsg \in {DbErrorMsg, UniqueViolationMsg} :
    message = "Fehler bei " \o match.teamHome \o " vs " \o match.teamAway \o ": " \o errorMsg

\* C7: every record that throws adds one to errorCount and one message naming its
\* teams to errors, and the loop goes on: every record of the batch is processed.
C7_ErrorIsolation ==
  runs > 0 =>
    LET failed == ErrorPositions(log, 1)
    IN /\ summary.errorCount = Len(failed)
       /\ Len(summary.errors) = Len(failed)
       /\ \A k \in 1..Len(failed) : NamesRecord(summary.errors[k], matches[failed[k]])
       /\ (pc = "loop" => Len(log) = idx - 1)
       /\ (pc # "loop" => Len(log) = Len(matches))

C7_Witness ==
  /\ Returned
  /\ \E i, j \in 1..Len(log) :
       i < j /\ log[i].outcome = "error" /\ log[j].outcome = "created"

\* ---------------------------------------------------------------- C8
\* C8: when the archival pass fails, the call still reaches the history write and
\* returns its summary; the created, updated, unchanged and error counts and the
\* error list are those of the record loop.
C8_BestEffortArchival ==
  "archive" \in faults =>
    /\ pc \in {"history", "idle"}
    /\ summary.createdCount = preArchive.createdCount
    /\ summary.updatedCount = preArchive.updatedCount
    /\ summary.unchangedCount = preArchive.unchangedCount
    /\ summary.errorCount = preArchive.errorCount
    /\ summary.errors = preArchive.errors
    /\ ((pc = "idle" /\ "history" \notin faults) =>
          /\ returned = "summary"
          /\ Len(importHistory) = historyAtStart + 1)

C8_Witness ==
  /\ Returned
  /\ "archive" \in faults
  /\ summary.createdCount + summary.updatedCount + summary.unchangedCount > 0

\* ---------------------------------------------------------------- C9
\* the messages, each but the last followed by a line feed
RECURSIVE Lines(_)
Lines(messages) ==
  IF Len(messages) = 1 THEN messages[1]
  ELSE Lines(SubSeq(messages, 1, Len(messages) - 1)) \o "\n" \o messages[Len(messages)]

\* C9: a call that returns has appended exactly one history row, after the records
\* and the archival pass: its counts are those of the summary, its fileName the
\* label given (null if none), its notes the error messages joined by line feeds
\* (null if there were none).
C9_HistoryRecord ==
  /\ (runs > 0 /\ pc # "idle") => Len(importHistory) = historyAtStart
  /\ (pc = "idle" /\ returned = "threw") => Len(importHistory) = historyAtStart
  /\ Returned =>
       /\ Len(importHistory) = historyAtStart + 1
       /\ LET row == importHistory[Len(importHistory)]
          IN /\ row.createdCount = summary.createdCount
             /\ row.updatedCount = summary.updatedCount
             /\ row.unchangedCount = summary.unchangedCount
             /\ row.archivedCount = summary.archivedCount
             /\ row.errorCount = summary.errorCount
             /\ row.fileName = (IF fileName = "" THEN NULL ELSE fileName)
             /\ row.notes = (IF Len(summary.errors) = 0 THEN NULL ELSE Lines(summary.errors))

C9_Witness ==
  /\ Returned
  /\ Len(summary.errors) > 0
  /\ summary.createdCount > 0
  /\ importHistory[Len(importHistory)].fileName = NULL

\* ---------------------------------------------------------------- C10
\* the call imported the one record of the end-to-end example into an empty table
ExampleImported ==
  /\ Returned
  /\ matches = <<mKey>>
  /\ eventsAtStart = {}
  /\ "record" \notin faults

\* C10: importing the example record into an empty store gives createdCount = 1 and
\* one stored active BFV event "SV A vs Club" with the generated externalId, whose
\* field is the default field of the herren/spiel mapping when there is one.
C10_EndToEndCreate ==
  ExampleImported =>
    /\ summary.createdCount = 1
    /\ Cardinality(events) = 1
    /\ \A r \in events :
         /\ r.source = "BFV"
         /\ r.status = "ACTIVE"
         /\ r.title = "SV A vs Club"
         /\ r.externalId = "sv a|club|2026-03-01|kreisliga"
         /\ \A m \in fieldMappings :
              (m.team = "herren" /\ m.eventType = "spiel") => r.field = m.defaultField

C10_Witness ==
  /\ ExampleImported
  /\ summary.createdCount = 1
  /\ \E m \in fieldMappings : m.team = "herren" /\ m.eventType = "spiel"
  /\ \E r \in events : r.field = "a-platz"

\* ---------------------------------------------------------------- C11
\* C11: no step of an importBfvMatches call removes a row: every row is still stored
\* under its id after the step, and a status that changes changes to ARCHIVED.
C11_NoHardDelete ==
  [][pc # "idle" =>
       \A r \in events : \E r2 \in events' :
          /\ r2.id = r.id
          /\ (r2.status # r.status => r2.status = "ARCHIVED")]_vars

\* the call archived a row that was active when it started; the row is still stored
C11_Witness ==
  /\ Returned
  /\ summary.archivedCount > 0
  /\ \E e \in eventsAtStart : /\ e.status = "ACTIVE"
                              /\ \E r \in RowsById(e.id) : r.status = "ARCHIVED"
  /\ Ids(eventsAtStart) \subseteq Ids(events)

\* ---------------------------------------------------------------- C12
\* C12: no step of an importBfvMatches call changes a row whose source is MANUAL:
\* the row is stored after the step exactly as before.
C12_ManualPreserved ==
  [][pc # "idle" => \A r \in events : r.source = "MANUAL" => r \in events']_vars

\* a hand-entered row carried the id of a record of the batch; the record did not
\* resolve to it, and the row is stored as it was
C12_Witness ==
  /\ Returned
  /\ \E e \in eventsAtStart :
       /\ e.source = "MANUAL"
       /\ e \in events
       /\ \E i \in 1..Len(log) : /\ generateExternalId(matches[i]) = e.externalId
                                  /\ log[i].outcome = "created"

\* ---------------------------------------------------------------- C13
\* positions i of call 1 and j of call 2 at which both calls issued an insert for the
\* same externalId
BothInserted(i, j) ==
  /\ i \in 1..Len(racers[1].log)
  /\ j \in 1..Len(racers[2].log)
  /\ racers[1].log[i].tried = "insert"
  /\ racers[2].log[j].tried = "insert"
  /\ generateExternalId(racers[1].matches[i]) = generateExternalId(racers[2].matches[j])

\* the error list of summary s holds the unique violation for match
ReportsConflict(s, match) ==
  \E k \in 1..Len(s.errors) :
    s.errors[k] = "Fehler bei " \o match.teamHome \o " vs " \o match.teamAway \o ": "
                    \o UniqueViolationMsg

\* C13: when two overlapping calls both issue an insert for the same (source,
\* externalId), exactly one insert succeeds and the other call counts a record error
\* with its message; no two rows share (source, externalId).  Stated for the most
\* favourable case: the records of each batch are pairwise different fixtures.
C13_RaceOneWins ==
  /\ UniqueExternalIds
  /\ (DistinctFixtures(racers[1].matches) /\ DistinctFixtures(racers[2].matches)) =>
       \A i \in 1..Len(racers[1].log), j \in 1..Len(racers[2].log) :
         BothInserted(i, j) =>
           LET o1 == racers[1].log[i].outcome
               o2 == racers[2].log[j].outcome
           IN /\ {o1, o2} = {"created", "error"}
              /\ (o1 = "error" => /\ racers[1].summary.errorCount >= 1
                                   /\ ReportsConflict(racers[1].summary, racers[1].matches[i]))
              /\ (o2 = "error" => /\ racers[2].summary.errorCount >= 1
                                   /\ ReportsConflict(racers[2].summary, racers[2].matches[j]))

\* ---------------------------------------------------------------- C14
\* the attributes in which the incoming record of the probe counts as different: date,
\* startTime, endTime always; field when newField is supplied; location and
\* competition when the incoming value is not blank
Differing ==
  {a \in {"date", "startTime", "endTime"} : probe.existing[a] # probe.match[a]}
    \cup {a \in {"field"} : probe.newField \notin {NULL, ""}
                              /\ probe.existing.field # probe.newField}
    \cup {a \in {"location", "competition"} : probe.match[a] \notin {NULL, ""}
                                                /\ probe.existing[a] # probe.match[a]}

\* the word a change entry starts with
Label(a) ==
  CASE a = "date" -> "Datum: "
    [] a = "startTime" -> "Startzeit: "
    [] a = "endTime" -> "Endzeit: "
    [] a = "field" -> "Platz: "
    [] a = "location" -> "Ort: "
    [] a = "competition" -> "Wettbewerb: "

StartsWith(s, prefix) ==
  Len(s) >= Len(prefix) /\ SubSeq(s, 1, Len(prefix)) = prefix

DetectDone == probe.op = "matchNeedsUpdate" /\ probe.done

\* C14: the change list has exactly one entry for each differing attribute and no
\* other entry, and needsUpdate is true exactly when the list is not empty.
C14_ChangeDetector ==
  DetectDone =>
    /\ Len(probe.out.changes) = Cardinality(Differing)
    /\ \A a \in Differing :
         \E k \in 1..Len(probe.out.changes) : StartsWith(probe.out.changes[k], Label(a))
    /\ probe.out.needsUpdate = (Len(probe.out.changes) > 0)

\* only the competition differs: one entry that names it, and needsUpdate
C14_Witness ==
  /\ DetectDone
  /\ probe.match = mCup
  /\ probe.existing.competition = "Kreisliga"
  /\ Differing = {"competition"}
  /\ probe.out.needsUpdate
  /\ probe.out.changes = <<"Wettbewerb: Kreisliga -> Pokal">>

\* ---------------------------------------------------------------- C15
\* C15: a record step that ends as unchanged writes nothing: calendar_events is as
\* before, externalId and updatedAt of the event included, and of the summary only
\* unchangedCount moves, by one.
C15_NoWriteOnNoOp ==
  [][(RecordStep /\ log'[idx].outcome = "unchanged") =>
       /\ events' = events
       /\ summary' = [summary EXCEPT !.unchangedCount = @ + 1]]_vars

\* a record found by the fallback lookup was left unchanged: the event still carries
\* its old externalId and the time of its last write
C15_Witness ==
  /\ Returned
  /\ \E i \in 1..Len(log) :
       /\ log[i].outcome = "unchanged"
       /\ log[i].via = "fallback"
       /\ \E e \in eventsAtStart :
            /\ e.id = log[i].id
            /\ e \in events
            /\ e.externalId # generateExternalId(matches[i])

\* ---------------------------------------------------------------- C16
\* C16: a record whose externalId is stored on a BFV row resolves to that row, whatever
\* other row carries its team names; a record resolves by the fallback lookup only
\* when no BFV row carries its externalId.
C16_ResolutionOrder ==
  [][RecordStep =>
       /\ (StoredUnderId # {} /\ log'[idx].outcome # "error") =>
            /\ log'[idx].via = "primary"
            /\ log'[idx].id \in Ids(StoredUnderId)
       /\ log'[idx].via = "fallback" => StoredUnderId = {}]_vars

\* the one record of the call resolved by its id while another active BFV event
\* carried its team names
C16_Witness ==
  /\ Returned
  /\ Len(matches) = 1
  /\ log[1].via = "primary"
  /\ \E y \in eventsAtStart :
       /\ y.id # log[1].id
       /\ y.source = "BFV"
       /\ y.status = "ACTIVE"
       /\ y.teamHome = matches[1].teamHome
       /\ y.teamAway = matches[1].teamAway

\* ---------------------------------------------------------------- C17
\* C17: after a call, an event that a record resolved to through the fallback lookup
\* carries the externalId computed for that record.  Stated for the most favourable
\* case: no other record of the batch resolved to the same event.
C17_AdoptsNewId ==
  Returned =>
    \A i \in 1..Len(log) :
      (/\ log[i].via = "fallback"
       /\ log[i].outcome # "error"
       /\ \A j \in 1..Len(log) : j # i => log[j].id # log[i].id)
        => \A r \in RowsById(log[i].id) : r.externalId = generateExternalId(matches[i])

\* ---------------------------------------------------------------- C18
\* C18: after a call with archiveMissing = true, an event that a record of the batch
\* resolved to is not archived by that call: if it is ARCHIVED, it already was when
\* the call started.
C18_ResolvedNotArchived ==
  (Returned /\ archiveMissing) =>
    \A i \in 1..Len(log) :
      log[i].outcome # "error" =>
        \A r \in RowsById(log[i].id) :
          r.status = "ARCHIVED" =>
            \E e \in eventsAtStart : e.id = r.id /\ e.status = "ARCHIVED"

\* ---------------------------------------------------------------- C19
\* the records of the batch have pairwise different computed externalIds
DistinctExternalIds(batch) ==
  \A i, j \in 1..Len(batch) :
    i # j => generateExternalId(batch[i]) # generateExternalId(batch[j])

\* C19: a batch of records with pairwise different externalIds, imported without error
\* into a store without BFV events, creates one event per record.  Stated for the
\* most favourable case: the records are also pairwise different fixtures.
C19_DistinctStayDistinct ==
  (/\ Returned
   /\ \A e \in eventsAtStart : e.source # "BFV"
   /\ DistinctExternalIds(matches)
   /\ DistinctFixtures(matches)
   /\ summary.errorCount = 0)
    => /\ summary.createdCount = Len(matches)
       /\ Cardinality({log[i].id : i \in 1..Len(log)}) = Len(matches)
       /\ \A i \in 1..Len(log) :
            \E r \in RowsById(log[i].id) : r.externalId = generateExternalId(matches[i])

\* ---------------------------------------------------------------- C20
\* the step from the end of the loop through the archival pass
ArchiveStep == pc = "loop" /\ idx > Len(matches) /\ pc' = "history"

\* the externalIds of the records the loop has gone through, errored ones included
SeenSoFar == {generateExternalId(matches[i]) : i \in 1..Len(log)}

\* C20: the seen set holds the externalId of every record the loop has gone through,
\* errored or not; the archival pass changes nothing unless archiveMissing is true and
\* the seen set is not empty, so an empty batch archives nothing and reports
\* archivedCount = 0; and the pass leaves alone every event stored under the
\* externalId of a record that errored.
C20_ArchiveGuard ==
  /\ [](runs > 0 => processedExternalIds = SeenSoFar)
  /\ [][ArchiveStep =>
          /\ (~archiveMissing \/ processedExternalIds = {}) =>
               (events' = events /\ summary' = summary)
          /\ Len(matches) = 0 => (events' = events /\ summary'.archivedCount = 0)
          /\ \A i \in 1..Len(log) :
               log[i].outcome = "error" =>
                 \A r \in events :
                   r.externalId = generateExternalId(matches[i]) => r \in events']_vars

\* the record of an active BFV event errored in a call with archiveMissing = true; the
\* pass ran and the event is stored as it was
C20_Witness ==
  /\ Returned
  /\ archiveMissing
  /\ processedExternalIds # {}
  /\ \E i \in 1..Len(log) :
       /\ log[i].outcome = "error"
       /\ \E e \in eventsAtStart :
            /\ e.source = "BFV"
            /\ e.status = "ACTIVE"
            /\ e.externalId = generateExternalId(matches[i])
            /\ e \in events

\* ---------------------------------------------------------------- C21
\* the rows stored under the id of the current record that are not active
InactiveUnderId == {r \in StoredUnderId : r.status \in {"ARCHIVED", "CANCELLED"}}

\* C21: the only status change a call makes is ACTIVE to ARCHIVED, in the archival
\* pass.  A record whose externalId is stored on an ARCHIVED or CANCELLED event is,
\* unless a store request of its iteration is rejected, counted as updated or
\* unchanged on that event; the event keeps its status and no row is added.
C21_StatusTransitions ==
  /\ [][pc # "idle" =>
          \A r \in events, r2 \in events' :
            (r2.id = r.id /\ r2.status # r.status) =>
              (ArchiveStep /\ r.status = "ACTIVE" /\ r2.status = "ARCHIVED")]_vars
  /\ [][(RecordStep /\ InactiveUnderId # {} /\ log'[idx].outcome # "error") =>
          /\ log'[idx].outcome \in {"updated", "unchanged"}
          /\ log'[idx].id \in Ids(InactiveUnderId)
          /\ Ids(events') = Ids(events)
          /\ \A r \in InactiveUnderId : \E r2 \in events' :
                r2.id = r.id /\ r2.status = r.status]_vars

\* a record was resolved by its id to an archived event and rewrote it; the event is
\* still archived
C21_Witness ==
  /\ Returned
  /\ \E i \in 1..Len(log) :
       /\ log[i].via = "primary"
       /\ log[i].outcome = "updated"
       /\ \E e \in eventsAtStart : e.id = log[i].id /\ e.status = "ARCHIVED"
       /\ \A r \in RowsById(log[i].id) : r.status = "ARCHIVED"

\* ---------------------------------------------------------------- C22
\* the records counted so far
Counted(s) == s.createdCount + s.updatedCount + s.unchangedCount + s.errorCount

\* C22: every record adds one to exactly one of createdCount, updatedCount,
\* unchangedCount and errorCount: the four sum to the number of records gone through,
\* which after the loop is the size of the batch; errors has errorCount entries.
C22_CountAccounting ==
  runs > 0 =>
    /\ Counted(summary) = Len(log)
    /\ (pc # "loop" => Counted(summary) = Len(matches))
    /\ Len(summary.errors) = summary.errorCount
    /\ summary.createdCount = Cardinality({i \in 1..Len(log) : log[i].outcome = "created"})
    /\ summary.updatedCount = Cardinality({i \in 1..Len(log) : log[i].outcome = "updated"})
    /\ summary.unchangedCount = Cardinality({i \in 1..Len(log) : log[i].outcome = "unchanged"})
    /\ summary.errorCount = Cardinality({i \in 1..Len(log) : log[i].outcome = "error"})

\* a call returned with a record created and a record in error
C22_Witness ==
  /\ Returned
  /\ Len(matches) >= 2
  /\ summary.createdCount >= 1
  /\ summary.errorCount >= 1

\* ---------------------------------------------------------------- C23
\* the events the lookups of the loop body can hand over for record m in the current
\* store, no store request failing: the row found by id, else any row the fallback
\* select can return first
LookupResults(m) ==
  IF PrimaryRows(generateExternalId(m)) # {}
  THEN {dbEventToCalendarEvent(r) : r \in PrimaryRows(generateExternalId(m))}
  ELSE {fallbackToCalendarEvent(r) : r \in FallbackRows(m)}

\* the counter a call importing the one record m can increment in the current store
CountedAs(m) ==
  IF LookupResults(m) = {}
  THEN {"created"}
  ELSE {IF matchNeedsUpdate(e, m, f).needsUpdate THEN "updated" ELSE "unchanged" :
          e \in LookupResults(m), f \in getDefaultFieldForTeam(m.team, m.isHomeGame)}

\* C23: records are gone through in input order, one at a time, and the store and the
\* batch determine the counts: in every store state a call can start from, a call
\* that imports one record can count it in one way only.
C23_Deterministic ==
  /\ (pc = "loop" => Len(log) = idx - 1)
  /\ (pc = "idle" => \A m \in Matches : Cardinality(CountedAs(m)) = 1)

\* ---------------------------------------------------------------- C24
\* the columns the update branch may write
UpdatedColumns ==
  {"externalId", "title", "date", "startTime", "endTime", "field", "location",
   "competition", "teamHome", "teamAway", "rawPayload", "updatedAt"}

\* the columns of calendar_events in the model
Columns ==
  {"id", "source", "externalId", "type", "title", "team", "teamHome", "teamAway", "field",
   "date", "startTime", "endTime", "isHomeGame", "opponent", "location", "competition",
   "description", "rawPayload", "status", "updatedAt"}

\* C24: a record step that ends as updated changes one row, and of that row only
\* externalId, title, date, startTime, endTime, field, location, competition, teamHome,
\* teamAway, rawPayload and updatedAt; id, source, status, type, team, isHomeGame,
\* opponent and description stay.
C24_UpdateFrame ==
  [][(RecordStep /\ log'[idx].outcome = "updated") =>
       \E r \in events, r2 \in events' :
         /\ r.id = log'[idx].id
         /\ r2.id = r.id
         /\ events' \ {r2} = events \ {r}
         /\ \A c \in Columns \ UpdatedColumns : r2[c] = r[c]]_vars

\* a hand-entered training flagged as BFV was rewritten by a record: it has the
\* teams of the record and is still a training without opponent
C24_Witness ==
  /\ Returned
  /\ \E i \in 1..Len(log) :
       /\ log[i].outcome = "updated"
       /\ \E r \in RowsById(log[i].id) :
            /\ r.teamHome = matches[i].teamHome
            /\ r.externalId = generateExternalId(matches[i])
            /\ r.type = "training"
            /\ r.opponent = NULL

\* ---------------------------------------------------------------- C25
\* C25: a session carries the admin flag only after a login that was answered 200 with
\* no logout answered 200 since; a login is answered 200 only for the admin password;
\* a request to a guarded route from a session without such a login is answered 401
\* without a storage call.
C25_AdminGating ==
  /\ \A s \in Sessions : session[s].isAdmin => s \in loggedIn
  /\ (response.route = "login" /\ response.status = 200)
       => response.password = getAdminPassword
  /\ (response.route \in GuardedRoutes /\ response.sid \notin loggedIn)
       => (response.status = 401 /\ response.storage = 0)

\* a guarded route has turned a session away while another session is logged in
C25_Witness ==
  /\ response.route \in GuardedRoutes
  /\ response.status = 401
  /\ response.storage = 0
  /\ response.sid \notin loggedIn
  /\ \E t \in Sessions : t \in loggedIn /\ session[t].isAdmin
  /\ adminPassword = "neu"

\* ---------------------------------------------------------------- C26
\* a call of getDefaultFieldForTeam returns
FieldReturn == probe.op = "getDefaultFieldForTeam" /\ ~probe.done /\ probe'.done

\* C26: getDefaultFieldForTeam returns undefined without a query on field_mappings for
\* an away game; for a home game it returns the default field of the mapping of
\* (team, spiel), or undefined when there is none; it leaves the tables as they are.
C26_FieldResolver ==
  [][FieldReturn =>
       /\ ~probe'.isHomeGame => (probe'.out = NULL /\ probe'.reads = 0)
       /\ probe'.isHomeGame =>
            IF \E m \in fieldMappings : m.team = probe'.team /\ m.eventType = "spiel"
            THEN \E m \in fieldMappings :
                   /\ m.team = probe'.team
                   /\ m.eventType = "spiel"
                   /\ probe'.out = m.defaultField
            ELSE probe'.out = NULL
       /\ fieldMappings' = fieldMappings
       /\ events' = events
       /\ importHistory' = importHistory]_vars

\* an away game of a team with a spiel mapping resolved to undefined, and a home game
\* of a team whose only mapping is for training resolved to undefined as well
C26_Witness ==
  /\ probe.op = "getDefaultFieldForTeam"
  /\ probe.done
  /\ probe.out = NULL
  /\ \/ /\ ~probe.isHomeGame
        /\ \E m \in fieldMappings : m.team = probe.team /\ m.eventType = "spiel"
     \/ /\ probe.isHomeGame
        /\ \E m \in fieldMappings : m.team = probe.team /\ m.eventType = "training"
        /\ ~\E m \in fieldMappings : m.team = probe.team /\ m.eventType = "spiel"

\* ---------------------------------------------------------------- C27
\* C27: generateExternalId returns the record's externalId as it is when that is not
\* empty, and otherwise the match key of teamHome, teamAway, date and competition; the
\* result is never empty.
C27_ExternalId ==
  (probe.op = "generateExternalId" /\ probe.done) =>
    /\ (probe.match.externalId \notin {"", NULL}) => probe.out = probe.match.externalId
    /\ (probe.match.externalId \in {"", NULL}) =>
         probe.out = generateMatchKey(probe.match.teamHome, probe.match.teamAway,
                                      probe.match.date, probe.match.competition)
    /\ probe.out # NULL
    /\ Len(probe.out) > 0

\* an id with blanks and capitals was returned as it is
C27_Witness ==
  /\ probe.op = "generateExternalId"
  /\ probe.done
  /\ probe.match.externalId = " BFV-1 "
  /\ probe.out = " BFV-1 "

\* ---------------------------------------------------------------- C28
\* the age groups whose token stands in the name
AgeGroupsIn(name) ==
  {g \in {"a", "b", "c", "d", "e", "f", "g"} :
     Includes(name, g \o "-jugend") \/ Includes(name, g \o "-junioren")}

\* C28: parseTeamFromName returns the section team when one is given, whatever the
\* name; without one it returns an age group named in the name, else damen for
\* Damen/Frauen, else alte-herren for Alte Herren/AH, else herren2 for II/2, else
\* herren; the result is one of TEAMS.
C28_TeamClassifier ==
  (probe.op = "parseTeamFromName" /\ probe.done) =>
    LET name == ToLowerCase(probe.teamName)
    IN /\ probe.out \in TEAMS
       /\ probe.sectionTeam # NULL => probe.out = probe.sectionTeam
       /\ probe.sectionTeam = NULL =>
            IF AgeGroupsIn(name) # {}
            THEN \E g \in AgeGroupsIn(name) : probe.out = g \o "-jugend"
            ELSE IF Includes(name, "damen") \/ Includes(name, "frauen")
            THEN probe.out = "damen"
            ELSE IF Includes(name, "alte herren") \/ Includes(name, "ah")
            THEN probe.out = "alte-herren"
            ELSE IF Includes(name, "ii") \/ Includes(name, " 2") \/ EndsWith(name, "2")
            THEN probe.out = "herren2"
            ELSE probe.out = "herren"

\* a name with the tokens Damen, AH and 2 and no section was classified as damen
C28_Witness ==
  /\ probe.op = "parseTeamFromName"
  /\ probe.done
  /\ probe.sectionTeam = NULL
  /\ probe.teamName = "SG Damen AH 2"
  /\ probe.out = "damen"

\* ---------------------------------------------------------------- C29
\* the pieces of the text whose fixture is returned, in order
RECURSIVE ReturnedFrom(_, _)
ReturnedFrom(text, i) ==
  IF i > Len(text) THEN <<>>
  ELSE (IF pdfMatchAt(text, <<>>, i) = <<>> THEN <<>> ELSE <<i>>)
         \o ReturnedFrom(text, i + 1)

\* the team a section word stands for; the Herren section names none
TeamOfSection(word) ==
  CASE word = "damen" -> "damen"
    [] word = "alte herren" -> "alte-herren"
    [] word = "herren" -> ""
    [] OTHER -> SubSeq(word, 1, 2) \o "jugend"

\* C29: every match parseBfvPdf returns has the club as home or away team, has no
\* SPIELFREI side, has isHome exactly when the home team contains the club name, and
\* has the team of the last section word before its line; the II/2 suffix of the
\* club's name decides between herren and herren2 only in the Herren section or when
\* no section word precedes.
C29_PdfFiltering ==
  (probe.op = "parseBfvPdf" /\ probe.done) =>
    LET src == ReturnedFrom(probe.text, 1)
        sections == sectionsFrom(probe.text, 1)
    IN /\ Len(src) = Len(probe.out)
       /\ \A k \in 1..Len(probe.out) :
            LET m == probe.out[k]
                section == ToLowerCase(currentSection(sections, StartPos(src[k])))
                own == IF m.isHome THEN m.homeTeam ELSE m.awayTeam
            IN /\ m.homeTeam = probe.text[src[k]].homeTeamRaw
               /\ m.awayTeam = probe.text[src[k]].awayTeamRaw
               /\ Includes(m.homeTeam, "TSV Greding") \/ Includes(m.awayTeam, "TSV Greding")
               /\ m.homeTeam # "SPIELFREI"
               /\ m.awayTeam # "SPIELFREI"
               /\ m.isHome <=> Includes(m.homeTeam, "TSV Greding")
               /\ IF section \notin {"", "herren"}
                  THEN m.team = TeamOfSection(section)
                  ELSE m.team = IF HasReserveSuffix(own) THEN "herren2" ELSE "herren"

\* after a header A-Junioren an away game of TSV Greding II was returned as a-jugend,
\* and a line of the text was left out
C29_Witness ==
  /\ probe.op = "parseBfvPdf"
  /\ probe.done
  /\ Len(probe.out) < Cardinality({i \in 1..Len(probe.text) : probe.text[i].kind = "fixture"})
  /\ \E k \in 1..Len(probe.out) :
       /\ probe.out[k].awayTeam = "TSV Greding II"
       /\ ~probe.out[k].isHome
       /\ probe.out[k].team = "a-jugend"

\* ---------------------------------------------------------------- C30
\* two spellings of one value: equal, or differing in letter case and outer blanks only
SameSpelling(x, y, forms) == x = y \/ \E F \in forms : x \in F /\ y \in F

\* C30: generateMatchKey gives one key to arguments that differ only in letter case and
\* outer blanks of teamHome, teamAway and competition; the key is home|away|date, with
\* |competition appended only when competition is not empty.
C30_KeyNormalisation ==
  (probe.op = "generateMatchKey" /\ probe.done) =>
    LET a == probe.a
        b == probe.b
        base == Trim(ToLowerCase(a.teamHome)) \o "|" \o Trim(ToLowerCase(a.teamAway))
                  \o "|" \o a.date
    IN /\ ( /\ SameSpelling(a.teamHome, b.teamHome, HomeForms)
            /\ SameSpelling(a.teamAway, b.teamAway, AwayForms)
            /\ SameSpelling(a.competition, b.competition, CompetitionForms)
            /\ a.date = b.date ) => probe.outA = probe.outB
       /\ IF a.competition \in {"", NULL}
          THEN probe.outA = base
          ELSE probe.outA = base \o "|" \o Trim(ToLowerCase(a.competition))

====
